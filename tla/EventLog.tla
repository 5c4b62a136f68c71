------------------------------ MODULE EventLog ------------------------------
(***************************************************************************)
(* What the event log promises its callers and its readers (the OS, the    *)
(* next boot).  A call asks for one event to be added or for the log to be *)
(* cleared; the first call after a reset reads the log and may add a boot  *)
(* event of its own.  Events are added in order, each of them once; when   *)
(* the log is nearly full the oldest go, and a clear event that tells how  *)
(* much went is added behind the newest.  The log is replaced as a whole   *)
(* only on request, or when the first call after a reset cannot read it.   *)
(*                                                                         *)
(* Losing power costs at most what was being written; an append that was   *)
(* torn makes the log unreadable behind it, and the next boot clears it.   *)
(* While a flash operation has failed nothing is promised until the next   *)
(* boot.                                                                   *)
(***************************************************************************)
EXTENDS Integers, Sequences, SequencesExt

CONSTANTS
  Requests,       \* what callers ask for: events, and ClearLog
  ClearLog,       \* the request to clear the log
  Boot,           \* the event of a boot
  Clear(_),       \* the event that tells that so much was dropped
  Space,          \* what an empty log has room for
  Full            \* a log of this size is trimmed

VARIABLES
  todo,           \* what the call in progress still has to do
  ready,          \* the log has been read since the last reset
  kept,           \* the events in front of anything that cannot be read
  whole,          \* all of the log can be read
  replacing,      \* the log is being replaced
  next,           \* what it is to become
  writing,        \* flash is being erased or programmed
  failed          \* a flash operation has failed since the last reset

vars == <<todo, ready, kept, whole, replacing, next, writing, failed>>

\* The cells that the events take.
Size(log) ==
  LET upto[i \in 0 .. Len(log)] == IF i = 0 THEN 0 ELSE upto[i - 1] + log[i].len
  IN  upto[Len(log)]

Init ==
  /\ todo = <<>> /\ ready = FALSE
  /\ kept = <<>> /\ whole = TRUE
  /\ replacing = FALSE /\ next = <<>>
  /\ writing = FALSE /\ failed = FALSE

Call(e) ==
  /\ todo = <<>>
  /\ todo' = <<e>>
  /\ UNCHANGED <<ready, kept, whole, replacing, next, writing, failed>>

\* The log is to be replaced by log, with a clear event for what was dropped.
Replace(log, dropped, others) ==
  /\ ~replacing /\ replacing' = TRUE /\ next' = log
  /\ todo' = <<Clear(dropped)>> \o others

\* The first call after a reset reads the log: it goes on with a log that can be
\* read, and replaces one that cannot, or that is empty.
Ready ==
  /\ ~ready /\ todo # <<>>
  /\ ready' = TRUE
  /\ \E boot \in {<<>>, <<Boot>>} :
       \/ whole /\ todo' = boot \o todo /\ UNCHANGED <<replacing, next>>
       \/ (~whole \/ kept = <<>>) /\ Replace(<<>>, Space, boot \o todo)
  /\ UNCHANGED <<kept, whole, writing, failed>>

\* The log is cleared on request.
Empty ==
  /\ ready /\ ~writing /\ todo # <<>> /\ Head(todo) = ClearLog
  /\ Replace(<<>>, Space, Tail(todo))
  /\ UNCHANGED <<ready, kept, whole, writing, failed>>

\* The event makes the log too long: the k oldest events go.
Trim(k) ==
  /\ ready /\ ~writing /\ whole /\ todo # <<>> /\ Head(todo) # ClearLog
  /\ LET log == Append(kept, Head(todo))
     IN  /\ Size(log) >= Full
         /\ Replace(SubSeq(log, k + 1, Len(log)), Size(SubSeq(log, 1, k)), Tail(todo))
  /\ UNCHANGED <<ready, kept, whole, writing, failed>>

\* The event, or all of a log that is replaced, is on its way to flash.
StartWrite ==
  /\ ready /\ ~writing /\ todo # <<>> /\ Head(todo) # ClearLog
  /\ \/ ~replacing /\ whole /\ UNCHANGED next
     \/ replacing /\ next' = Append(next, Head(todo))
  /\ writing' = TRUE
  /\ UNCHANGED <<todo, ready, kept, whole, replacing, failed>>

Erase ==
  /\ writing /\ replacing
  /\ kept' = <<>> /\ whole' = TRUE
  /\ UNCHANGED <<todo, ready, replacing, next, writing, failed>>

\* The event has been added.
FinishWrite ==
  /\ writing /\ writing' = FALSE
  /\ \/ ~replacing /\ kept' = Append(kept, Head(todo))
     \/ replacing /\ kept = <<>> /\ whole /\ kept' = next
  /\ todo' = Tail(todo) /\ replacing' = FALSE /\ next' = <<>>
  /\ UNCHANGED <<ready, whole, failed>>

\* Power is lost: a log that was not being written stays as it is, an append
\* spoils at most what follows it, a rewrite may lose anything.
Reset ==
  /\ \/ UNCHANGED <<kept, whole>>
     \/ writing /\ kept' = kept
     \/ writing /\ replacing /\ kept' \in Prefixes(kept) \cup Prefixes(next)
     \/ failed
  /\ todo' = <<>> /\ ready' = FALSE
  /\ replacing' = FALSE /\ next' = <<>> /\ writing' = FALSE /\ failed' = FALSE

\* A flash operation fails, or has failed.
Fault == failed' = TRUE

Next ==
  \/ /\ ~failed
     /\ \/ \E e \in Requests : Call(e)
        \/ Ready \/ Empty
        \/ \E k \in 1 .. Len(kept) : Trim(k)
        \/ StartWrite \/ Erase \/ FinishWrite
  \/ Reset \/ Fault

Spec == Init /\ [][Next]_vars
=============================================================================
