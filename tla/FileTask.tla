------------------------------ MODULE FileTask ------------------------------
(* Remote file systems: every operation is a task that the facility carries   *)
(* out on its own, and that the client polls until it ends or the time is     *)
(* over.  What the facility answers may be wrapped in base64.                 *)
EXTENDS Integers, FiniteSets

CONSTANTS Texts,       \* contents a file may have
          Base64Like,  \* those that are valid base64 themselves
          MaxTasks     \* bound on tasks

ASSUME TasksAssumption == MaxTasks \in Nat /\ Base64Like \subseteq Texts

Tasks == 1..MaxTasks
NoFile == "nofile"
Garbled == "garbled"
NoTask == [op |-> "none", text |-> NoFile, state |-> "unused", read |-> NoFile]

VARIABLES wraps,      \* the facility wraps its results in base64
          task,       \* the tasks of the facility
          remote,     \* the file at the facility
          polled,     \* the task the client waits for, 0 without one
          done,       \* ghost: the text of the last operation that returned
          abandoned,  \* ghost: tasks the client gave up on or never heard of
          local       \* the downloaded file

fileVars == <<wraps, task, remote, polled, done, abandoned, local>>

FileInit ==
    /\ wraps \in BOOLEAN
    /\ task = [t \in Tasks |-> NoTask]
    /\ remote = NoFile
    /\ polled = 0
    /\ done = NoFile
    /\ abandoned = {}
    /\ local = NoFile

(* An operation submits its task; mv, cp, compress and extract write the file *)
(* as upload does, and rm removes it.  The call raises when no answer comes,  *)
(* although the facility may have taken the task.                             *)
Ops == ({"write"} \X Texts) \cup {<<"rm", NoFile>>, <<"download", NoFile>>}
SubmitTask(op, answered) ==
    /\ polled = 0
    /\ \E t \in Tasks :
        /\ task[t] = NoTask /\ \A earlier \in 1..(t - 1) : task[earlier] # NoTask
        /\ task' = [task EXCEPT ![t] =
                       [op |-> op[1], text |-> op[2], state |-> "pending", read |-> NoFile]]
        /\ polled' = IF answered THEN t ELSE 0
        /\ abandoned' = IF answered THEN abandoned ELSE abandoned \cup {t}
    /\ UNCHANGED <<wraps, remote, done, local>>

(* The facility starts a task, and carries it out or fails it.                *)
StartTask(t) ==
    /\ task[t].state = "pending"
    /\ task' = [task EXCEPT ![t].state = "active"]
    /\ UNCHANGED <<wraps, remote, polled, done, abandoned, local>>
EndTask(t, ok) ==
    /\ task[t].state = "active"
    /\ task' = [task EXCEPT ![t].state = IF ok THEN "completed" ELSE "failed", ![t].read = remote]
    /\ remote' = IF ok /\ task[t].op # "download" THEN task[t].text ELSE remote
    /\ UNCHANGED <<wraps, polled, done, abandoned, local>>

\* Mutant of Terminal: a task that runs is taken for done.
TerminalEarly(t) == task[t].state \in {"active", "completed", "failed"}

(* _run_task: polls until a final state.                                      *)
Terminal(t) == task[t].state \in {"completed", "failed"}

\* Mutant of Decoded: the wrapping is not undone.
DecodedNot(text) == IF wraps THEN Garbled ELSE text

(* _decode_result: what is valid base64 is decoded, wrapped or not.           *)
Decoded(text) == IF ~wraps /\ text \in Base64Like THEN Garbled ELSE text

Returned ==
    /\ polled # 0 /\ Terminal(polled)
    /\ LET t == task[polled] IN
        /\ done' = IF t.state # "failed" /\ t.op # "download" THEN t.text ELSE done
        /\ local' = IF t.state = "completed" /\ t.op = "download" THEN Decoded(t.read) ELSE local
    /\ polled' = 0
    /\ UNCHANGED <<wraps, task, remote, abandoned>>

(* The time is over, or get_task itself failed: the task goes on.             *)
GiveUp ==
    /\ polled # 0
    /\ abandoned' = abandoned \cup {polled}
    /\ polled' = 0
    /\ UNCHANGED <<wraps, task, remote, done, local>>

FileNext ==
    \/ \E op \in Ops, answered \in BOOLEAN : SubmitTask(op, answered)
    \/ \E t \in Tasks : StartTask(t) \/ \E ok \in BOOLEAN : EndTask(t, ok)
    \/ Returned \/ GiveUp

FileSpec == FileInit /\ [][FileNext]_fileVars

-----------------------------------------------------------------------------
(* Between two operations the file is what the last operation that returned  *)
(* made of it, unless an operation that raised, because the client gave up   *)
(* on its task or never heard of it, was carried out all the same and wrote  *)
(* it: operations that return take effect in their order.                    *)
InOrder ==
    polled = 0 =>
        \/ remote = done
        \/ \E t \in abandoned :
            task[t].op # "download" /\ task[t].state = "completed" /\ task[t].text = remote

(* A downloaded file is what the remote file held when the download ran, on  *)
(* every facility that wraps its results.                                    *)
DownloadsFaithfully ==
    [][local' # local =>
        \/ local' = task[polled].read
        \/ ~wraps /\ task[polled].read \in Base64Like]_fileVars

(* What is written and what is read is what the caller asked for.            *)
FilesAreRight == []InOrder /\ DownloadsFaithfully
=============================================================================
