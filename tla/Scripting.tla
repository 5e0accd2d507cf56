----------------------------- MODULE Scripting -----------------------------
(***************************************************************************)
(* scripting.Service (scripting/requestProcessor.go): requests run the     *)
(* script of a file, compiled anew when the file's modification time has   *)
(* moved on.  One script; its file may be edited, broken and removed.      *)
(*                                                                         *)
(* A request looks at the file without the lock (Stat), then compiles and  *)
(* takes the program under it, then runs it.  A file's content is numbered *)
(* by edits; its modification time is a clock that edits may share.        *)
(***************************************************************************)
EXTENDS Integers

CONSTANTS Request,      \* goroutines in Process
          MaxEdits      \* bound on the edits of the file

Absent == 0             \* no file, no program, no time

VARIABLES file,         \* content of the file and its modification time
          broken,       \* contents that do not compile
          lastModified, \* scr.lastModified
          byteCode,     \* scr.byteCode: the content it was compiled from
          request,      \* where each request is, the time it saw, the program it got
          edits,        \* the number of edits so far
          failed        \* history: times at which the file was read or compiled in vain

scriptVars == <<file, broken, lastModified, byteCode, request, edits, failed>>

Fresh == [at |-> "new", seen |-> Absent, known |-> Absent, program |-> Absent]

ScriptInit ==
  /\ file = [content |-> Absent, time |-> Absent]
  /\ broken = {} /\ failed = {}
  /\ lastModified = Absent /\ byteCode = Absent /\ edits = 0
  /\ request = [r \in Request |-> Fresh]

-----------------------------------------------------------------------------
(* The environment: an edit, in the same tick of the clock or a later one, *)
(* of a script that compiles or not. *)
Edit ==
  /\ edits < MaxEdits
  /\ edits' = edits + 1
  /\ \E t \in {file.time, edits + 1} :
       /\ t # Absent
       /\ file' = [content |-> edits + 1, time |-> t]
  /\ broken' \in {broken, broken \cup {edits + 1}}
  /\ UNCHANGED <<lastModified, byteCode, request, failed>>

Delete ==
  /\ file.content # Absent
  /\ file' = [file EXCEPT !.content = Absent]
  /\ UNCHANGED <<broken, lastModified, byteCode, request, edits, failed>>

-----------------------------------------------------------------------------
(* Process up to os.Stat: FileNotFound when there is no file. *)
Stat(r) ==
  /\ request[r].at = "new"
  /\ request' = [request EXCEPT ![r] =
       IF file.content = Absent THEN [Fresh EXCEPT !.at = "FileNotFound"]
       ELSE [at |-> "stat", seen |-> file.time, known |-> file.content, program |-> Absent]]
  /\ UNCHANGED <<file, broken, lastModified, byteCode, edits, failed>>

Compiles == file.content # Absent /\ file.content \notin broken

(* Mutation: the file is read before the lock, its time again under it. *)
getScriptReadsEarly(r) ==
  /\ request[r].at = "stat"
  /\ IF lastModified < file.time /\ request[r].known \notin broken
     THEN lastModified' = file.time /\ byteCode' = request[r].known
     ELSE UNCHANGED <<lastModified, byteCode>>
  /\ request' = [request EXCEPT ![r].at = "program", ![r].program = byteCode']
  /\ UNCHANGED <<file, broken, edits, failed>>

(* The rest of getScript, under the lock.  The time is kept before the     *)
(* file is read and compiled, and stays when either fails; a file that is  *)
(* gone by then is not even an error.                                      *)
getScript(r) ==
  LET me == request[r]
  IN  /\ me.at = "stat"
      /\ IF lastModified < me.seen
         THEN /\ lastModified' = me.seen
              /\ IF Compiles
                 THEN /\ byteCode' = file.content
                      /\ request' = [request EXCEPT ![r].at = "program",
                                                    ![r].program = file.content]
                      /\ UNCHANGED failed
                 ELSE /\ request' = [request EXCEPT
                           ![r].at = IF file.content = Absent THEN "program" ELSE "CompilationError",
                           ![r].program = byteCode]
                      /\ failed' = failed \cup {me.seen}
                      /\ UNCHANGED byteCode
         ELSE /\ request' = [request EXCEPT ![r].at = "program", ![r].program = byteCode]
              /\ UNCHANGED <<lastModified, byteCode, failed>>
      /\ UNCHANGED <<file, broken, edits>>

(* RunProgram: a result or a RuntimeError; without a program it panics,    *)
(* Process recovers and returns neither a result nor an error.             *)
RunProgram(r) ==
  /\ request[r].at = "program"
  /\ \E end \in IF request[r].program = Absent THEN {"nothing"}
                ELSE {"result", "RuntimeError"} :
       request' = [request EXCEPT ![r].at = end]
  /\ UNCHANGED <<file, broken, lastModified, byteCode, edits, failed>>

ScriptNext == \/ Edit \/ Delete
              \/ \E r \in Request : Stat(r) \/ getScript(r) \/ RunProgram(r)

ScriptSpec == ScriptInit /\ [][ScriptNext]_scriptVars

-----------------------------------------------------------------------------
(* A request never runs a program older than the file it saw, nor returns  *)
(* nothing at all, unless a compilation had failed on a file as new as     *)
(* that one, or the file was changed twice within a tick of the clock.     *)
OldProgramExplained ==
  \A r \in Request :
    request[r].at \in {"program", "result", "RuntimeError", "nothing"} =>
      \/ request[r].program >= request[r].known
      \/ \E t \in failed : t >= request[r].seen
      \/ request[r].known # request[r].seen
=============================================================================
