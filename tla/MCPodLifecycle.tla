--------------------------- MODULE MCPodLifecycle ---------------------------
(* Small instances of PodLifecycle for TLC. *)
EXTENDS PodProperties, TLC

CONSTANTS chat, embed,    \* templates
          a1, a2          \* engine arguments

Resumes(a) == [args |-> a, mode |-> "stopResume"]
Rebuilds(a) == [args |-> a, mode |-> "recreate"]

MCTemplates == {chat, embed}
MCArgs == {a1, a2}

(* One way to configure a template, two modes, or two sets of arguments. *)
MCPausing == {Resumes(a1)}
MCModes == {Resumes(a1), Rebuilds(a1)}
MCEdits == {Resumes(a1), Resumes(a2)}

MCOneTemplate == {chat}

(* Templates that can be saved in the same ways are interchangeable. *)
MCSymmetry == Permutations(MCTemplates)
=============================================================================
