------------------------------ MODULE Teardown ------------------------------
(***************************************************************************)
(* What main() does when event_loop::run returns: it deletes the files it  *)
(* made and the event loop, whose destructor deletes the event queue, the  *)
(* files that are still registered, and the event queue again (main.cpp,   *)
(* gptk/event_loop.cpp, gptk/unixpipe.cpp).                                *)
(*                                                                         *)
(* Every ~ufile unregisters its file and, if it had one, closes its        *)
(* descriptor; both flush the loop, that is, write to first() through      *)
(* event_queue, a pointer that is never reset.                             *)
(***************************************************************************)
EXTENDS Integers, SequencesExt

CONSTANT Files    \* the client objects

Endpoints == {"first", "second"}
MainFiles == <<"first", "second", "server", "mainboard", "config", "meas",
               "stdin">>
Objects   == Files \cup ToSet(MainFiles) \cup {"queue"}

\* The deletes of main(), that of the configuration by ~mainboard included;
\* and those of one `delete event_queue'.
MainDeletes  == <<"server", "config", "mainboard", "meas", "stdin">>
QueueDeletes == <<"first", "second", "queue">>

VARIABLES
    files,        \* event_loop::files once run() has returned
    phase,        \* "run", "exit", "again": the second delete of the queue,
                  \* "done"; "crashed"; "hung": the operator's line is never
                  \* left
    todo,         \* objects to delete before the phase ends
    freed,        \* how often each object was deleted
    dangling      \* objects used after they were deleted

exitVars == <<files, phase, todo, freed, dangling>>

ExitInit == /\ files = <<>> /\ phase = "run" /\ todo = <<>>
            /\ freed = [x \in Objects |-> 0] /\ dangling = {}

\* run() returns while these clients are registered.
Return(registered) ==
    /\ phase = "run"
    /\ phase' = "exit"
    /\ files' = MainFiles \o registered
    /\ todo' = MainDeletes \o QueueDeletes
    /\ UNCHANGED <<freed, dangling>>

\* Mutant: ~ufile does not unregister its file.
WithoutNothing(s, x) == s

\* event_loop::unregister_file: list::remove takes out all that equal x.
Without(s, x) ==
    FlattenSeq([i \in DOMAIN s |-> IF s[i] = x THEN <<>> ELSE <<s[i]>>])

\* What a delete uses: the object; and the queue and its first end if it is a
\* file, as its destructor flushes.
Used(x) == IF x = "queue" THEN {x} ELSE {x, "queue", "first"}

\* The object x is deleted while s is registered.  One that is used after it
\* was deleted may still look alive, or end the process.
Delete(x, s) ==
    LET stale == {o \in Used(x) : freed[o] > 0} IN
      /\ freed' = [freed EXCEPT ![x] = @ + 1]
      /\ files' = Without(s, x)
      /\ dangling' = dangling \cup stale
      /\ \/ phase' = phase
         \/ stale # {} /\ phase' = "crashed"

DeleteNext ==
    /\ phase \in {"exit", "again"} /\ todo # <<>>
    /\ Delete(Head(todo), files)
    /\ todo' = Tail(todo)

\* A turn of the loop of ~event_loop over what is still registered.
DeleteRest ==
    /\ phase = "exit" /\ todo = <<>> /\ files # <<>>
    /\ Delete(Last(files), Front(files))
    /\ UNCHANGED todo

DeleteQueueAgain ==
    /\ phase = "exit" /\ todo = <<>> /\ files = <<>>
    /\ phase' = "again" /\ todo' = QueueDeletes
    /\ UNCHANGED <<files, freed, dangling>>

Finish == /\ phase = "again" /\ todo = <<>>
          /\ phase' = "done"
          /\ UNCHANGED <<files, todo, freed, dangling>>

ExitNext == DeleteNext \/ DeleteRest \/ DeleteQueueAgain \/ Finish

-----------------------------------------------------------------------------
(* Properties *)

\* "these pointers do not exists longer than the lifetime of the complete
\* pipe": the queue and its ends are not used once they are deleted.
PipePointersLive == dangling = {}

=============================================================================
