------------------------------- MODULE Computer -------------------------------
(***************************************************************************)
(* The computer of one conversation: the table of operations and the       *)
(* committed files that SnapshotStore keeps                                 *)
(* (services/agent/src/newscraft_agent/executor_state.py), and the          *)
(* containers OCIComputer makes for them (oci_executor.py).  Each tool call *)
(* that needs the computer is one operation with a container of its own.    *)
(* Other runs of the conversation have operations there too: of these it is *)
(* said only that they may stand in the way (PortableRun, AdmitCall).       *)
(*                                                                         *)
(* These are the operations alone; PortableRun decides who calls them and   *)
(* when.  The files are the sequence of operations that were committed.     *)
(***************************************************************************)
EXTENDS Naturals, Sequences

CONSTANT MaxCalls         \* bound: tool calls the model makes in the run

ASSUME CallsAssumption == MaxCalls \in Nat

Calls == 1..MaxCalls

VARIABLES
  row,          \* operations table: phase and result of each operation
  container,    \* what the daemon has under the operation's name
  files         \* workspaces.snapshot: the operations whose files it holds

computer == <<row, container, files>>

Phases == {"none", "creating", "running", "done", "cancelled"}
Results == {"none", "ok", "failed"}

(* "coming": a create the daemon was asked for and has not done yet.        *)
Places == {"none", "coming", "there", "gone"}

ComputerTypeOK ==
  /\ row \in [Calls -> [phase : Phases, result : Results]]
  /\ container \in [Calls -> Places]
  /\ files \in Seq(Calls)

Unfinished(c) == row[c].phase \in {"creating", "running"}
Mine == {c \in Calls : Unfinished(c)}

------------------------------------------------------------------------------
(* Faulty forms of some of the definitions below; no specification uses     *)
(* them.  They are what the checked properties are there to exclude.        *)

CommitsWhateverHappened(c, result) ==
  /\ row[c].phase = "running"
  /\ row' = [row EXCEPT ![c] = [phase |-> "done", result |-> result]]
  /\ files' = Append(files, c)
  /\ UNCHANGED container

AbsenceConfirms(c, removed) == container[c] # "there"

------------------------------------------------------------------------------
ComputerInit ==
  /\ row = [c \in Calls |-> [phase |-> "none", result |-> "none"]]
  /\ container = [c \in Calls |-> "none"]
  /\ files = <<>>

(* admit: one unfinished operation at most in the conversation.             *)
Admit(c) ==
  /\ row[c].phase = "none"
  /\ Mine = {}
  /\ row' = [row EXCEPT ![c].phase = "creating"]
  /\ UNCHANGED <<container, files>>

AskForContainer(c) ==
  container' = [container EXCEPT ![c] = "coming"] /\ UNCHANGED <<row, files>>

(* The daemon gets to a create it was asked for, or never does.             *)
Appears(c) ==
  /\ container[c] = "coming"
  /\ container' = [container EXCEPT ![c] = "there"]
  /\ UNCHANGED <<row, files>>
Vanishes(c) ==
  /\ container[c] = "coming"
  /\ container' = [container EXCEPT ![c] = "none"]
  /\ UNCHANGED <<row, files>>

(* created: the row moves on only if nobody has cancelled it meanwhile.     *)
Created(c) ==
  /\ row[c].phase = "creating"
  /\ row' = [row EXCEPT ![c].phase = "running"]
  /\ UNCHANGED <<container, files>>

Remove(c) ==
  /\ container[c] = "there"
  /\ container' = [container EXCEPT ![c] = "gone"]
  /\ UNCHANGED <<row, files>>

(* _clean: a container that was found and removed is gone; one that is not  *)
(* there is gone only if its creation had been confirmed, for a create that *)
(* timed out may still be done.                                             *)
Confirmed(c, removed) ==
  /\ container[c] # "there"
  /\ removed \/ row[c].phase = "running"

(* cancelled: touches unfinished rows only. *)
Cancelled(cs) ==
  /\ row' = [c \in Calls |->
               IF c \in cs /\ Unfinished(c) THEN [row[c] EXCEPT !.phase = "cancelled"]
               ELSE row[c]]
  /\ UNCHANGED <<container, files>>

(* finish: the result, and the files of an operation that succeeded, in one *)
(* transaction; an operation cancelled meanwhile is not finished.           *)
Finish(c, result) ==
  /\ row[c].phase = "running"
  /\ row' = [row EXCEPT ![c] = [phase |-> "done", result |-> result]]
  /\ files' = IF result = "ok" THEN Append(files, c) ELSE files
  /\ UNCHANGED container

=============================================================================
