------------------------------ MODULE EbbCache ------------------------------
(***************************************************************************)
(* What Ebb translation promises the callers of an Ebb, on every core: the *)
(* first call on a core binds the Ebb there to a representative, the       *)
(* binding never changes, and every call runs on the bound representative. *)
(* A representative is named by the core that constructed it; a core uses  *)
(* its own, except the cores in Confusable, which may be given another's.  *)
(***************************************************************************)
CONSTANTS
  Cores,
  Ebbs,
  Confusable,  \* cores that may be bound to a representative of another core
  None         \* not bound, or not executing a function of an Ebb

VARIABLES
  bound,    \* bound[c][e]: the representative of Ebb e on core c
  serving   \* serving[c]: the Ebb and representative c is executing, or None

vars == <<bound, serving>>

Init ==
  /\ bound = [c \in Cores |-> [e \in Ebbs |-> None]]
  /\ serving = [c \in Cores |-> None]

Bind(c, e) ==
  /\ serving[c] = None
  /\ bound[c][e] = None
  /\ \E d \in IF c \in Confusable THEN Cores ELSE {c} :
       bound' = [bound EXCEPT ![c][e] = d]
  /\ UNCHANGED serving

Serve(c, e) ==
  /\ serving[c] = None
  /\ bound[c][e] # None
  /\ serving' = [serving EXCEPT ![c] = <<e, bound[c][e]>>]
  /\ UNCHANGED bound

Done(c) ==
  /\ serving[c] # None
  /\ serving' = [serving EXCEPT ![c] = None]
  /\ UNCHANGED bound

Next ==
  \E c \in Cores :
    \/ \E e \in Ebbs : Bind(c, e) \/ Serve(c, e)
    \/ Done(c)

Spec == Init /\ [][Next]_vars
=============================================================================
