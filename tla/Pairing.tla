------------------------------ MODULE Pairing -------------------------------
(***************************************************************************)
(* Pairing an app with the service (auth/pairing.ts), beside the accesses  *)
(* only a paired app may manage.  Every start of the service issues a      *)
(* code, and so does a paired app: a fresh one, whose name is the number   *)
(* of its issue, or at a start the one that the deployment configures.     *)
(***************************************************************************)
EXTENDS Access, Sequences

CONSTANTS
  Devices,      \* rows of devices, before and after they exist
  MaxAttempts,  \* MAX_ATTEMPTS
  Ttl,          \* TTL_MINUTES
  Horizon,      \* bound: the clock stops here
  MaxIssues     \* bound: codes that are issued

ASSUME PairingAssumption ==
  /\ MaxAttempts \in Nat \ {0} /\ Ttl \in Nat
  /\ Horizon \in Nat /\ MaxIssues \in Nat \ {0}

VARIABLES
  now,
  configured,  \* whether the deployment sets PAIRING_CODE; it does not change
  pairing,     \* PairingService: its code, attempts, redeemed and expiresAt
  devices,     \* devices: the issue each was enrolled with, 0 before
  issues       \* history: of each issue, its code, when, and the guesses made

vars == <<accessVars, now, configured, pairing, devices, issues>>

Preset == 0     \* the code of PAIRING_CODE

Issue(code, at) == [code |-> code, attempts |-> 0, redeemed |-> FALSE, expiresAt |-> at + Ttl]

TypeOK ==
  /\ AccessTypeOK
  /\ now \in 0..Horizon
  /\ configured \in BOOLEAN
  /\ pairing \in [code : 0..MaxIssues, attempts : 0..MaxAttempts, redeemed : BOOLEAN,
                  expiresAt : 0..Horizon + Ttl]
  /\ devices \in [Devices -> 0..MaxIssues]
  /\ Len(issues) \in 1..MaxIssues

(* What a start of the service issues, its number being n. *)
StartCode(n) == IF configured THEN Preset ELSE n

Init ==
  /\ AccessInit
  /\ now = 0
  /\ configured \in BOOLEAN
  /\ pairing = Issue(StartCode(1), 0)
  /\ devices = [d \in Devices |-> 0]
  /\ issues = <<[code |-> StartCode(1), at |-> 0, guesses |-> 0]>>

AtHand == Len(issues)     \* the issue whose code is asked for

Paired(d) == devices[d] # 0

-----------------------------------------------------------------------------
Refused == pairing.redeemed \/ pairing.attempts >= MaxAttempts \/ now > pairing.expiresAt

(* redeem, refused whatever the code: nothing changes. *)
Refuse == Refused /\ UNCHANGED vars

(* Mutant: the guesses are not counted out. *)
GuessUncounted(presented) ==
  /\ ~pairing.redeemed /\ now <= pairing.expiresAt
  /\ presented # pairing.code
  /\ pairing' = [pairing EXCEPT !.attempts = @ + 1]
  /\ issues' = [issues EXCEPT ![AtHand].guesses = @ + 1]
  /\ UNCHANGED <<accessVars, now, configured, devices>>

(* redeem, with the wrong code: one that was never issued, or an older one. *)
Guess(presented) ==
  /\ ~Refused
  /\ presented # pairing.code
  /\ pairing' = [pairing EXCEPT !.attempts = @ + 1]
  /\ issues' = [issues EXCEPT ![AtHand].guesses = @ + 1]
  /\ UNCHANGED <<accessVars, now, configured, devices>>

(* Mutant: the code survives its own redemption. *)
RedeemUnburnt(d) ==
  /\ ~Refused
  /\ devices[d] = 0
  /\ devices' = [devices EXCEPT ![d] = AtHand]
  /\ UNCHANGED <<accessVars, now, configured, pairing, issues>>

Redeem(d) ==
  /\ ~Refused
  /\ devices[d] = 0
  /\ pairing' = [pairing EXCEPT !.redeemed = TRUE]
  /\ devices' = [devices EXCEPT ![d] = AtHand]
  /\ UNCHANGED <<accessVars, now, configured, issues>>

(* The code is replaced, and nothing of the one before is remembered. *)
Reissue(code) ==
  /\ AtHand < MaxIssues
  /\ pairing' = Issue(code, now)
  /\ issues' = Append(issues, [code |-> code, at |-> now, guesses |-> 0])
  /\ UNCHANGED <<accessVars, now, configured, devices>>

(* POST /pair/new-code, from an app that is paired: a generated one. *)
IssueNewCode == (\E d \in Devices : Paired(d)) /\ Reissue(AtHand + 1)

(* The service starts again: the tables are kept, and a code is issued as  *)
(* at the first start.  The configured one is issued once more, spent,     *)
(* expired or guessed at in vain as it may be.                             *)
Restart == Reissue(StartCode(AtHand + 1))

ClockMoves ==
  /\ now < Horizon
  /\ now' = now + 1
  /\ UNCHANGED <<accessVars, configured, pairing, devices, issues>>

(* The admin routes: requireDevice takes a paired app only. *)
Manage ==
  /\ \E d \in Devices : Paired(d)
  /\ \/ TokenSteps
     \/ \E t \in Templates : CreateTemplate(t) \/ DeleteTemplate(t, FALSE)
  /\ UNCHANGED <<now, configured, pairing, devices, issues>>

Next ==
  \/ \E presented \in 0..MaxIssues : Guess(presented)
  \/ \E d \in Devices : Redeem(d)
  \/ Refuse \/ IssueNewCode \/ Restart \/ ClockMoves \/ Manage

Spec == Init /\ [][Next]_vars

-----------------------------------------------------------------------------
(* A device is enrolled less than a lifetime after the code was issued, and *)
(* after fewer guesses than are allowed; an issue enrols one device, and two *)
(* that were enrolled by the same code were so by the configured one,      *)
(* issued again by a restart in between. *)
EnrolledByALiveCode ==
  [][\A d \in Devices : devices'[d] # devices[d] =>
       LET n == devices'[d] IN
       /\ now - issues[n].at <= Ttl
       /\ issues[n].guesses < MaxAttempts
       /\ \A other \in Devices \ {d} : Paired(other) =>
            /\ devices[other] < n
            /\ issues[devices[other]].code = issues[n].code =>
                 configured /\ issues[n].code = Preset]_vars

(* PAIRING_CODE "is single-use, expires" (config.ts:10), as every pairing  *)
(* code is (auth/pairing.ts:9-11): a code enrols one device. *)
CodeWorksOnce ==
  [][\A d, other \in Devices :
       devices'[d] # devices[d] /\ Paired(other) =>
         issues[devices[other]].code # issues[devices'[d]].code]_vars
=============================================================================
