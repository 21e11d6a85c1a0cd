--------------------------- MODULE Pairing_proofs ---------------------------
(***************************************************************************)
(* What pairing and the accesses promise, for every number of tokens,      *)
(* templates, devices and issued codes.  IInv ties the code at hand to the *)
(* record of its issue; everything else is read off one step under it.     *)
(***************************************************************************)
EXTENDS Pairing, TLAPS

Issues == [code : Nat, at : Nat, guesses : Nat]

(* Every issue is recorded, with a code of its own or the configured one,  *)
(* and the code at hand is that of the last. *)
Recorded ==
  /\ issues \in Seq(Issues)
  /\ \A n \in 1..Len(issues) :
       issues[n].code = n \/ (configured /\ issues[n].code = Preset)
  /\ issues[AtHand].code = pairing.code
  /\ issues[AtHand].at + Ttl = pairing.expiresAt
  /\ issues[AtHand].guesses = pairing.attempts

(* A device holds an issue that there was, and the one at hand only once   *)
(* that has been redeemed. *)
BurntOnceUsed ==
  \A d \in Devices :
    /\ devices[d] <= AtHand
    /\ devices[d] = AtHand => pairing.redeemed

IInv == TypeOK /\ TargetsExist /\ Recorded /\ BurntOnceUsed

-----------------------------------------------------------------------------
(* What the admin routes do to tokens and templates keeps their types and  *)
(* leaves no token with a template that is gone. *)
LEMMA AccessStep ==
  ASSUME AccessTypeOK, TargetsExist,
         \/ TokenSteps
         \/ \E t \in Templates : CreateTemplate(t) \/ DeleteTemplate(t, FALSE)
  PROVE  AccessTypeOK' /\ TargetsExist'
<1> USE DEF AccessTypeOK, TargetsExist
<1>1. CASE TokenSteps
  <2>1. ASSUME NEW k \in Tokens, NEW target \in Templates \cup {None},
               IssueToken(k, target)
        PROVE  AccessTypeOK' /\ TargetsExist'
    BY <2>1 DEF IssueToken, Known
  <2>2. ASSUME NEW k \in Tokens, NEW target \in Templates \cup {None},
               AssignToken(k, target)
        PROVE  AccessTypeOK' /\ TargetsExist'
    BY <2>2 DEF AssignToken, Known
  <2>3. ASSUME NEW k \in Tokens, RevokeToken(k)
        PROVE  AccessTypeOK' /\ TargetsExist'
    BY <2>3 DEF RevokeToken
  <2>4. ASSUME NEW k \in Tokens, DeleteToken(k)
        PROVE  AccessTypeOK' /\ TargetsExist'
    BY <2>4 DEF DeleteToken, Absent
  <2> QED BY <1>1, <2>1, <2>2, <2>3, <2>4 DEF TokenSteps
<1>2. ASSUME NEW t \in Templates, CreateTemplate(t)
      PROVE  AccessTypeOK' /\ TargetsExist'
  BY <1>2 DEF CreateTemplate
<1>3. ASSUME NEW t \in Templates, DeleteTemplate(t, FALSE)
      PROVE  AccessTypeOK' /\ TargetsExist'
  BY <1>3 DEF DeleteTemplate
<1> QED BY <1>1, <1>2, <1>3

(* A token that works stops working only through its own revocation or     *)
(* the removal of its assignment, whichever route is called. *)
LEMMA CutOffStep ==
  ASSUME AccessTypeOK,
         \/ TokenSteps
         \/ \E t \in Templates : CreateTemplate(t) \/ DeleteTemplate(t, FALSE),
         NEW k \in Tokens, Works(k), ~Works(k)'
  PROVE  \/ tokens'[k] = [tokens[k] EXCEPT !.state = "revoked"]
         \/ tokens'[k] = [tokens[k] EXCEPT !.target = None]
<1> USE DEF AccessTypeOK, Works, Verified
<1>1. CASE TokenSteps
  <2>1. ASSUME NEW j \in Tokens, NEW target \in Templates \cup {None},
               IssueToken(j, target)
        PROVE  FALSE
    BY <2>1 DEF IssueToken
  <2>2. ASSUME NEW j \in Tokens, NEW target \in Templates \cup {None},
               AssignToken(j, target)
        PROVE  tokens'[k] = [tokens[k] EXCEPT !.target = None]
    BY <2>2 DEF AssignToken
  <2>3. ASSUME NEW j \in Tokens, RevokeToken(j)
        PROVE  tokens'[k] = [tokens[k] EXCEPT !.state = "revoked"]
    BY <2>3 DEF RevokeToken
  <2>4. ASSUME NEW j \in Tokens, DeleteToken(j)
        PROVE  FALSE
    BY <2>4 DEF DeleteToken
  <2> QED BY <1>1, <2>1, <2>2, <2>3, <2>4 DEF TokenSteps
<1>2. CASE \E t \in Templates : CreateTemplate(t) \/ DeleteTemplate(t, FALSE)
  BY <1>2 DEF CreateTemplate, DeleteTemplate
<1> QED BY <1>1, <1>2

-----------------------------------------------------------------------------
LEMMA InitHolds == Init => IInv
<1> SUFFICES ASSUME Init PROVE IInv
  OBVIOUS
<1> USE PairingAssumption DEF Init, StartCode, Preset
<1>1. AccessTypeOK /\ TargetsExist
  BY DEF AccessInit, Absent, AccessTypeOK, TargetsExist
<1>2. Len(issues) = 1 /\ issues[1] = [code |-> StartCode(1), at |-> 0, guesses |-> 0]
  OBVIOUS
<1>3. TypeOK
  BY <1>1, <1>2 DEF TypeOK, Issue
<1>4. Recorded
  BY <1>2 DEF Recorded, Issues, Issue, AtHand
<1>5. BurntOnceUsed
  BY <1>2 DEF BurntOnceUsed, AtHand
<1> QED BY <1>1, <1>3, <1>4, <1>5 DEF IInv

(* The code at hand has its record. *)
LEMMA AtHandRecorded ==
  ASSUME TypeOK, Recorded
  PROVE  AtHand \in 1..Len(issues) /\ issues[AtHand] \in Issues
<1>1. AtHand \in 1..Len(issues)
  BY PairingAssumption DEF TypeOK, AtHand
<1>2. issues \in Seq(Issues)
  BY DEF Recorded
<1>3. ASSUME NEW S, NEW s \in Seq(S), NEW i \in 1..Len(s) PROVE s[i] \in S
  OBVIOUS
<1> QED BY <1>1, <1>2, <1>3

(* A guess is written down beside the code it was made at. *)
LEMMA GuessKeeps ==
  ASSUME IInv, NEW presented \in 0..MaxIssues, Guess(presented)
  PROVE  IInv'
<1> USE PairingAssumption DEF IInv, Guess, Refused
<1>1. AccessTypeOK' /\ TargetsExist'
  BY DEF accessVars, TypeOK, AccessTypeOK, TargetsExist
<1>2. AtHand \in 1..Len(issues) /\ issues[AtHand] \in Issues /\ issues \in Seq(Issues)
  BY AtHandRecorded DEF Recorded
<1>3. /\ issues' \in Seq(Issues) /\ Len(issues') = Len(issues) /\ AtHand' = AtHand
      /\ issues'[AtHand] = [issues[AtHand] EXCEPT !.guesses = @ + 1]
      /\ \A n \in 1..Len(issues) : issues'[n].code = issues[n].code
  <2> DEFINE i == AtHand
  <2>0. ASSUME NEW e \in Issues PROVE [e EXCEPT !.guesses = @ + 1] \in Issues
    BY DEF Issues
  <2>1. [issues[i] EXCEPT !.guesses = @ + 1] \in Issues
    BY <1>2, <2>0
  <2>2. issues' = [issues EXCEPT ![i] = [issues[i] EXCEPT !.guesses = @ + 1]]
    OBVIOUS
  <2> HIDE DEF i
  <2>3. /\ issues' \in Seq(Issues) /\ Len(issues') = Len(issues)
        /\ issues'[i] = [issues[i] EXCEPT !.guesses = @ + 1]
        /\ \A n \in 1..Len(issues) : n # i => issues'[n] = issues[n]
    BY <1>2, <2>1, <2>2 DEF i
  <2>4. issues'[i].code = issues[i].code
    BY <1>2, <2>3 DEF Issues, i
  <2> QED BY <2>3, <2>4 DEF AtHand, i
<1>4. TypeOK'
  <2>1. pairing.attempts + 1 \in 0..MaxAttempts
    BY DEF TypeOK
  <2>2. pairing' \in [code : 0..MaxIssues, attempts : 0..MaxAttempts, redeemed : BOOLEAN,
                      expiresAt : 0..Horizon + Ttl]
    BY <2>1 DEF TypeOK
  <2> QED BY <1>1, <1>3, <2>2 DEF TypeOK
<1>5. Recorded'
  <2>1. pairing.attempts \in Nat /\ pairing' = [pairing EXCEPT !.attempts = @ + 1]
    BY DEF TypeOK
  <2>2. /\ pairing'.attempts = pairing.attempts + 1 /\ pairing'.code = pairing.code
        /\ pairing'.expiresAt = pairing.expiresAt
    BY <2>1 DEF TypeOK
  <2>3. /\ issues'[AtHand].code = pairing.code /\ issues'[AtHand].at + Ttl = pairing.expiresAt
        /\ issues'[AtHand].guesses = pairing.attempts + 1
    <3>1. /\ issues[AtHand].code = pairing.code
          /\ issues[AtHand].at + Ttl = pairing.expiresAt
          /\ issues[AtHand].guesses = pairing.attempts
      BY DEF Recorded
    <3> DEFINE e == issues[AtHand]
    <3>2. e \in Issues /\ issues'[AtHand] = [e EXCEPT !.guesses = e.guesses + 1]
      BY <1>2, <1>3
    <3> HIDE DEF e
    <3>3. /\ issues'[AtHand].code = e.code /\ issues'[AtHand].at = e.at
          /\ issues'[AtHand].guesses = e.guesses + 1
      BY <3>2 DEF Issues
    <3> QED BY <3>1, <3>3 DEF e
  <2> QED BY <1>3, <2>2, <2>3 DEF Recorded
<1>6. BurntOnceUsed'
  BY <1>3 DEF TypeOK, BurntOnceUsed
<1> QED BY <1>1, <1>4, <1>5, <1>6

LEMMA RedeemKeeps ==
  ASSUME IInv, NEW d \in Devices, Redeem(d)
  PROVE  IInv'
<1> USE PairingAssumption DEF IInv, Redeem
<1>1. AccessTypeOK' /\ TargetsExist'
  BY DEF accessVars, TypeOK, AccessTypeOK, TargetsExist
<1>2. TypeOK'
  <2>1. pairing' \in [code : 0..MaxIssues, attempts : 0..MaxAttempts, redeemed : BOOLEAN,
                      expiresAt : 0..Horizon + Ttl]
    BY DEF TypeOK
  <2>2. devices' \in [Devices -> 0..MaxIssues]
    BY DEF TypeOK, AtHand
  <2> QED BY <1>1, <2>1, <2>2 DEF TypeOK
<1>3. Recorded'
  BY DEF TypeOK, Recorded, AtHand
<1>4. BurntOnceUsed'
  BY DEF TypeOK, BurntOnceUsed, AtHand
<1> QED BY <1>1, <1>2, <1>3, <1>4

(* A new issue is the next one, so that no device holds it yet. *)
LEMMA ReissueKeeps ==
  ASSUME IInv, NEW code, code = AtHand + 1 \/ (configured /\ code = Preset), Reissue(code)
  PROVE  IInv'
<1> USE PairingAssumption DEF IInv, Reissue, Issue
<1>1. AccessTypeOK' /\ TargetsExist'
  BY DEF accessVars, TypeOK, AccessTypeOK, TargetsExist
<1>2. now \in Nat /\ AtHand \in Nat /\ AtHand < MaxIssues /\ issues \in Seq(Issues)
  BY DEF TypeOK, AtHand, Recorded
<1>3. code \in 0..MaxIssues
  BY <1>2 DEF Preset
<1>4. /\ issues' \in Seq(Issues) /\ AtHand' = AtHand + 1 /\ Len(issues') = AtHand + 1
      /\ issues'[AtHand + 1] = [code |-> code, at |-> now, guesses |-> 0]
      /\ \A n \in 1..Len(issues) : issues'[n] = issues[n]
  <2>1. [code |-> code, at |-> now, guesses |-> 0] \in Issues
    BY <1>2, <1>3 DEF Issues
  <2> QED BY <1>2, <2>1 DEF AtHand
<1>5. TypeOK'
  BY <1>1, <1>2, <1>3, <1>4 DEF TypeOK
<1>6. Recorded'
  BY <1>2, <1>4 DEF Recorded, AtHand
<1>7. BurntOnceUsed'
  BY <1>2, <1>4 DEF TypeOK, BurntOnceUsed
<1> QED BY <1>1, <1>5, <1>6, <1>7

LEMMA ManageKeeps ==
  ASSUME IInv, Manage
  PROVE  IInv'
<1> USE DEF IInv, Manage
<1>1. AccessTypeOK' /\ TargetsExist'
  BY AccessStep DEF TypeOK
<1>2. TypeOK'
  BY <1>1 DEF TypeOK
<1>3. Recorded' /\ BurntOnceUsed'
  BY DEF Recorded, BurntOnceUsed, AtHand
<1> QED BY <1>1, <1>2, <1>3

LEMMA NextKeeps == IInv /\ [Next]_vars => IInv'
<1> SUFFICES ASSUME IInv, [Next]_vars PROVE IInv'
  OBVIOUS
<1>1. ASSUME NEW presented \in 0..MaxIssues, Guess(presented) PROVE IInv'
  BY <1>1, GuessKeeps
<1>2. ASSUME NEW d \in Devices, Redeem(d) PROVE IInv'
  BY <1>2, RedeemKeeps
<1>3. CASE IssueNewCode \/ Restart
  <2>1. PICK code : Reissue(code) /\ (code = AtHand + 1 \/ (configured /\ code = Preset))
    BY <1>3 DEF IssueNewCode, Restart, StartCode
  <2> QED BY <1>3, <2>1, ReissueKeeps
<1>4. CASE ClockMoves
  <2> USE <1>4, PairingAssumption DEF ClockMoves, IInv
  <2>1. AccessTypeOK' /\ TargetsExist'
    BY DEF accessVars, TypeOK, AccessTypeOK, TargetsExist
  <2>2. TypeOK'
    BY <2>1 DEF TypeOK
  <2>3. Recorded' /\ BurntOnceUsed'
    BY DEF Recorded, BurntOnceUsed, AtHand
  <2> QED BY <2>1, <2>2, <2>3
<1>5. CASE Manage
  BY <1>5, ManageKeeps
<1>6. CASE Refuse \/ UNCHANGED vars
  BY <1>6 DEF Refuse, vars, accessVars, IInv, TypeOK, AccessTypeOK, TargetsExist,
              Recorded, BurntOnceUsed, AtHand
<1> QED BY <1>1, <1>2, <1>3, <1>4, <1>5, <1>6 DEF Next

LEMMA Invariance == Spec => []IInv
<1> QED BY InitHolds, NextKeeps, PTL DEF Spec

-----------------------------------------------------------------------------
(* The state of pairing and accesses stays what the code and its tables    *)
(* can hold: attempts are counted no further than the limit. *)
THEOREM TypeCorrect == Spec => []TypeOK
<1>1. IInv => TypeOK
  BY DEF IInv
<1> QED BY <1>1, Invariance, PTL

(* No token, a revoked one included, points at a template that is gone. *)
THEOREM TargetsExistAlways == Spec => []TargetsExist
<1>1. IInv => TargetsExist
  BY DEF IInv
<1> QED BY <1>1, Invariance, PTL

(* A device is only ever enrolled by an issue of its own, in its lifetime  *)
(* and before the guesses ran out; by a code that enrolled another only if *)
(* it is the configured one, which every start of the service issues.      *)
THEOREM EnrolledByALiveCodeAlways == Spec => EnrolledByALiveCode
<1> DEFINE Enrols(d) ==
      LET n == devices'[d] IN
      /\ now - issues[n].at <= Ttl
      /\ issues[n].guesses < MaxAttempts
      /\ \A other \in Devices \ {d} : Paired(other) =>
           /\ devices[other] < n
           /\ issues[devices[other]].code = issues[n].code =>
                configured /\ issues[n].code = Preset
<1>1. ASSUME IInv, [Next]_vars, NEW d \in Devices, devices'[d] # devices[d]
      PROVE  Enrols(d)
  <2>1. PICK e \in Devices : Redeem(e)
    BY <1>1 DEF Next, Guess, Refuse, IssueNewCode, Restart, Reissue, ClockMoves, Manage, vars
  <2>2. e = d /\ devices'[d] = AtHand
    BY <1>1, <2>1 DEF Redeem, IInv, TypeOK
  <2>3. ~pairing.redeemed /\ pairing.attempts < MaxAttempts /\ now <= pairing.expiresAt
    BY <1>1, <2>1, PairingAssumption DEF Redeem, Refused, IInv, TypeOK
  <2>4. AtHand \in 1..Len(issues) /\ issues[AtHand] \in Issues /\ Len(issues) \in Nat
    BY <1>1, AtHandRecorded DEF IInv, TypeOK
  <2>5. /\ now - issues[AtHand].at <= Ttl
        /\ issues[AtHand].guesses < MaxAttempts
    <3>1. /\ issues[AtHand].at + Ttl = pairing.expiresAt
          /\ issues[AtHand].guesses = pairing.attempts
      BY <1>1 DEF IInv, Recorded
    <3>2. Ttl \in Nat /\ now \in Nat
      BY <1>1, PairingAssumption DEF IInv, TypeOK
    <3>3. \A issue \in Issues : issue.at \in Nat
      BY DEF Issues
    <3> QED BY <2>3, <2>4, <3>1, <3>2, <3>3
  <2>6. ASSUME NEW other \in Devices \ {d}, Paired(other)
        PROVE  /\ devices[other] < AtHand
               /\ issues[devices[other]].code = issues[AtHand].code =>
                    configured /\ issues[AtHand].code = Preset
    <3> DEFINE m == devices[other]
               n == AtHand
    <3>1. m \in Nat /\ m # 0 /\ m <= n /\ m # n /\ n \in Nat
      BY <1>1, <2>3, <2>4, <2>6, PairingAssumption DEF IInv, TypeOK, BurntOnceUsed, Paired
    <3>2. m \in 1..Len(issues) /\ n \in 1..Len(issues)
      BY <2>4, <3>1
    <3>3. \A i \in 1..Len(issues) :
            issues[i].code = i \/ (configured /\ issues[i].code = Preset)
      BY <1>1 DEF IInv, Recorded
    <3> HIDE DEF m, n
    <3>4. m < n /\ (issues[m].code = issues[n].code => configured /\ issues[n].code = Preset)
      <4>1. /\ issues[m].code = m \/ issues[m].code = Preset
            /\ issues[n].code = n \/ (configured /\ issues[n].code = Preset)
        BY <3>2, <3>3
      <4> DEFINE a == issues[m].code
                 b == issues[n].code
      <4>2. (a = m \/ a = Preset) /\ (b = n \/ (configured /\ b = Preset))
        BY <4>1
      <4> HIDE DEF a, b
      <4>3. m < n /\ (a = b => configured /\ b = Preset)
        BY <3>1, <4>2 DEF Preset
      <4> QED BY <4>3 DEF a, b
    <3> QED BY <3>4 DEF m, n
  <2> QED BY <2>2, <2>5, <2>6
<1>2. IInv /\ [Next]_vars => [\A d \in Devices : devices'[d] # devices[d] => Enrols(d)]_vars
  BY <1>1
<1> QED BY <1>2, Invariance, PTL DEF Spec, EnrolledByALiveCode

(* An application that is served is cut off by nothing but the revocation  *)
(* of its own access or the removal of its assignment. *)
THEOREM CutOffOnlyByHandAlways == Spec => CutOffOnlyByHand
<1> DEFINE ByHand(k) ==
      Works(k) /\ ~Works(k)' =>
        \/ tokens'[k] = [tokens[k] EXCEPT !.state = "revoked"]
        \/ tokens'[k] = [tokens[k] EXCEPT !.target = None]
<1>1. ASSUME IInv, [Next]_vars, NEW k \in Tokens PROVE ByHand(k)
  <2>1. CASE Manage
    BY <1>1, <2>1, CutOffStep DEF Manage, IInv, TypeOK
  <2>2. CASE UNCHANGED accessVars
    BY <2>2 DEF accessVars, Works, Verified
  <2> QED
    BY <1>1, <2>1, <2>2 DEF Next, Guess, Redeem, Refuse, IssueNewCode, Restart, Reissue,
                            ClockMoves, vars
<1>2. IInv /\ [Next]_vars => [\A k \in Tokens : ByHand(k)]_accessVars
  BY <1>1
<1> QED BY <1>2, Invariance, PTL DEF Spec, CutOffOnlyByHand
=============================================================================
