--------------------------- MODULE RequestLedger ---------------------------
(***************************************************************************)
(* What the operators of the eIMs may rely on, whatever the relay between  *)
(* an eIM and the eUICC loses, repeats or delays.  The eUICC executes a    *)
(* package only while nothing it has executed makes the package stale, and *)
(* a package makes itself stale.  A request is answered once and for all;  *)
(* an answer that speaks of an execution or a download follows it, and one *)
(* that speaks of neither ("unknown") leaves open whether there was one.   *)
(***************************************************************************)
EXTENDS Sequences

CONSTANTS
  Package,    \* requests to execute an eUICC package
  Download,   \* requests to download a profile
  Stale       \* <<p, q>>: once p has been executed, q is stale

VARIABLES
  log,         \* the packages executed, in this order
  downloaded,  \* the downloads done
  answer       \* what each request's eIM has been told

vars == <<log, downloaded, answer>>

\* "done": all of it was; "faulted": it was executed and some of it failed.
Answers == {"done", "faulted", "unknown"}

Init ==
  /\ log = <<>>
  /\ downloaded = {}
  /\ answer = [r \in Package \cup Download |-> "none"]

Execute(p) ==
  /\ \A k \in DOMAIN log : <<log[k], p>> \notin Stale
  /\ log' = Append(log, p)
  /\ UNCHANGED <<downloaded, answer>>

Finish(d) ==
  /\ downloaded' = downloaded \cup {d}
  /\ UNCHANGED <<log, answer>>

Performed(r) == r \in downloaded \/ \E k \in DOMAIN log : log[k] = r

Answer(r, a) ==
  /\ answer[r] = "none"
  /\ a # "unknown" => Performed(r)
  /\ answer' = [answer EXCEPT ![r] = a]
  /\ UNCHANGED <<log, downloaded>>

Next ==
  \/ \E p \in Package : Execute(p)
  \/ \E d \in Download : Finish(d)
  \/ \E r \in Package \cup Download, a \in Answers : Answer(r, a)

Spec == Init /\ [][Next]_vars
============================================================================
