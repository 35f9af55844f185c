--------------------------- MODULE CompletionPort ---------------------------
(***************************************************************************)
(* wi::IoCompletionPort (io_completion_port.h): the operations of its      *)
(* users on the kernel's queue of entries, which every module with a port  *)
(* is built from.  What an entry carries is up to them; one for a request  *)
(* that failed is fetched like any other (wait_impl returns it together    *)
(* with the error code).                                                   *)
(***************************************************************************)
EXTENDS Naturals, Sequences

VARIABLE entries    \* what was posted and not yet fetched, oldest first

PortInit == entries = <<>>

\* post; or the kernel, when a request ends
Post(e) == entries' = Append(entries, e)

\* What wait_impl and wait_many_impl return, if they return anything.
Oldest == Head(entries)
OldestMany(max) == SubSeq(entries, 1, IF max < Len(entries) THEN max ELSE Len(entries))

\* get, query and wait_for find an entry
Get ==
    /\ entries # <<>>
    /\ entries' = Tail(entries)

\* query and wait_for find none in time
TimeOut ==
    /\ entries = <<>>
    /\ UNCHANGED entries

\* get_many, with room for max entries
GetMany(max) ==
    /\ entries # <<>>
    /\ entries' = SubSeq(entries, Len(OldestMany(max)) + 1, Len(entries))
=============================================================================
