------------------------------ MODULE HumanGate ------------------------------
(***************************************************************************)
(* What the run service promises a person, with nothing of how it is done: *)
(* no process, thread, checkpoint or capability.  The commands of a run are*)
(* asked about one by one and in order; one answer permits one launch of   *)
(* exactly what was asked; the next question comes only after a launch.    *)
(* A permit may be lost (the service stopped), and then the same question  *)
(* may be asked again; it is never used twice and never for another action.*)
(***************************************************************************)
EXTENDS Naturals, Sequences

CONSTANTS
  Runs,
  Subjects,  \* what a question is about: one exact command
  Nothing

\* A question is about the command at one position of the run's plan.
Questions == [index: Nat, digest: Subjects]

VARIABLES
  state,    \* what a person sees of each run
  asked,    \* the questions each run has asked
  permit,   \* the question answered with yes and not yet acted upon
  launched  \* commands started, in order

vars == <<state, asked, permit, launched>>

TypeOK ==
  /\ state \in [Runs -> {"none", "ready", "busy", "asking", "over"}]
  /\ asked \in [Runs -> SUBSET Questions]
  /\ permit \in [Runs -> Questions \cup {Nothing}]
  /\ launched \in Seq([run: Runs, question: Questions])

Init ==
  /\ state = [r \in Runs |-> "none"]
  /\ asked = [r \in Runs |-> {}]
  /\ permit = [r \in Runs |-> Nothing]
  /\ launched = <<>>

Move(r, from, to) == state[r] = from /\ state' = [state EXCEPT ![r] = to]

Latest(r, q) == q \in asked[r] /\ \A p \in asked[r] : p.index <= q.index

Started(r, q) ==
  \E i \in DOMAIN launched : launched[i] = [run |-> r, question |-> q]

Create(r) == Move(r, "none", "ready") /\ UNCHANGED <<asked, permit, launched>>

Begin(r) == Move(r, "ready", "busy") /\ UNCHANGED <<asked, permit, launched>>

Put(r, q) ==
  /\ Move(r, "busy", "asking")
  /\ asked' = [asked EXCEPT ![r] = @ \cup {q}]
  /\ permit' = [permit EXCEPT ![r] = Nothing]
  /\ UNCHANGED launched

\* A new question is about the first action, or about the one after an action
\* that has been launched; an old one is the latest, asked again.
Ask(r) ==
  \/ asked[r] = {} /\ \E s \in Subjects : Put(r, [index |-> 0, digest |-> s])
  \/ \E q \in asked[r] :
       /\ Latest(r, q)
       /\ \/ Put(r, q)
          \/ /\ Started(r, q)
             /\ \E s \in Subjects :
                  Put(r, [index |-> q.index + 1, digest |-> s])

Allow(r) ==
  /\ Move(r, "asking", "busy")
  /\ \E q \in asked[r] : Latest(r, q) /\ permit' = [permit EXCEPT ![r] = q]
  /\ UNCHANGED <<asked, launched>>

Deny(r) == Move(r, "asking", "busy") /\ UNCHANGED <<asked, permit, launched>>

Launch(r) ==
  /\ state[r] = "busy"
  /\ permit[r] # Nothing
  /\ launched' = Append(launched, [run |-> r, question |-> permit[r]])
  /\ permit' = [permit EXCEPT ![r] = Nothing]
  /\ UNCHANGED <<state, asked>>

\* Permits of any number of runs are lost: a failure, or a process stops.
Lose(lost) ==
  /\ permit' = [r \in Runs |-> IF r \in lost THEN Nothing ELSE permit[r]]
  /\ UNCHANGED <<state, asked, launched>>

\* A run may also end while it asks: recovery cannot always restore it.
End(r) ==
  /\ Move(r, "busy", "over") \/ Move(r, "asking", "over")
  /\ permit' = [permit EXCEPT ![r] = Nothing]
  /\ UNCHANGED <<asked, launched>>

Next ==
  \/ \E r \in Runs : Create(r) \/ Begin(r) \/ Ask(r) \/ Allow(r) \/ Deny(r)
                    \/ Launch(r) \/ End(r)
  \/ \E lost \in SUBSET Runs : Lose(lost)

Spec == Init /\ [][Next]_vars
=============================================================================
