------------------------------ MODULE MemRange ------------------------------
(***************************************************************************)
(* The range lists of lib/memrange.c.  A struct memranges is the sequence  *)
(* of its entries in list order; the free list only recycles storage.  An  *)
(* entry covers the pages begin .. end, both included, as in the code:     *)
(* do_action has already rounded addresses to pages.                       *)
(***************************************************************************)
EXTENDS Integers, SequencesExt

range_entry_end(r) == r.end + 1

range_entry_size(r) == r.end - r.begin + 1

Entry(begin, end, tag) == [begin |-> begin, end |-> end, tag |-> tag]

\* A plausible slip: neighbours are never merged.
Merges_Never(prev, cur) == FALSE

\* An entry is merged into the one before it.
Merges(prev, cur) == range_entry_end(prev) >= cur.begin /\ prev.tag = cur.tag

\* Each run of entries that merge becomes one entry.
merge_neighbor_entries(ranges) ==
    LET merged[n \in 0 .. Len(ranges)] ==
          IF n = 0 THEN <<>>
          ELSE LET done == merged[n-1]
                   cur  == ranges[n]
               IN IF done # <<>> /\ Merges(Last(done), cur)
                  THEN Append(Front(done), [Last(done) EXCEPT !.end = cur.end])
                  ELSE Append(done, cur)
    IN merged[Len(ranges)]

\* What remove_memranges leaves of one entry.
Leftover(cur, begin, end) ==
    IF end < cur.begin \/ begin > cur.end
    THEN <<cur>>
    ELSE (IF begin > cur.begin THEN <<[cur EXCEPT !.end = begin - 1]>> ELSE <<>>)
         \o (IF end < cur.end THEN <<[cur EXCEPT !.begin = end + 1]>> ELSE <<>>)

remove_memranges(ranges, begin, end) ==
    FlattenSeq([i \in DOMAIN ranges |-> Leftover(ranges[i], begin, end)])

\* The new entry goes in front of the first that begins behind its end.
merge_add_memranges(ranges, begin, end, tag) ==
    LET kept == remove_memranges(ranges, begin, end)
        spot == CHOOSE k \in 1 .. Len(kept) + 1 :
                    /\ \A i \in 1 .. k - 1 : end >= kept[i].begin
                    /\ k <= Len(kept) => end < kept[k].begin
    IN merge_neighbor_entries(InsertAt(kept, spot, Entry(begin, end, tag)))

memranges_insert(ranges, base, size, tag) ==
    IF size = 0 THEN ranges
    ELSE merge_add_memranges(ranges, base, base + size - 1, tag)

memranges_update_tag(ranges, old_tag, new_tag) ==
    merge_neighbor_entries(
        [i \in DOMAIN ranges |->
           IF ranges[i].tag = old_tag THEN [ranges[i] EXCEPT !.tag = new_tag]
           ELSE ranges[i]])

(***************************************************************************)
(* The loop looks at the hole in front of every entry but the first, until *)
(* it has passed one that begins at or above the limit.                    *)
(***************************************************************************)
HoleBefore(ranges, i, limit, tag) ==
    IF /\ i > 1
       /\ i > 2 => ranges[i-1].begin < limit
       /\ range_entry_end(ranges[i-1]) # ranges[i].begin
    THEN <<Entry(range_entry_end(ranges[i-1]),
                 IF ranges[i].begin - 1 >= limit THEN limit - 1
                 ELSE ranges[i].begin - 1,
                 tag)>>
    ELSE <<>>

memranges_fill_holes_up_to(ranges, limit, tag) ==
    LET filled == FlattenSeq([i \in DOMAIN ranges |->
                     HoleBefore(ranges, i, limit, tag) \o <<ranges[i]>>])
        tail   == IF ranges # <<>> /\ range_entry_end(Last(ranges)) < limit
                  THEN <<Entry(range_entry_end(Last(ranges)), limit - 1, tag)>>
                  ELSE <<>>
    IN merge_neighbor_entries(filled \o tail)

(***************************************************************************)
(* A hole behind an entry that crosses the limit begins above the limit    *)
(* and is given an end below it.  Whoever fills holes has to keep such     *)
(* lists away from memranges_fill_holes_up_to.                             *)
(***************************************************************************)
HoleBehindLimit(ranges, limit) ==
    \E i \in 1 .. Len(ranges) - 1 :
        /\ ranges[i].begin < limit
        /\ range_entry_end(ranges[i]) > limit
        /\ range_entry_end(ranges[i]) # ranges[i+1].begin

\* Entries in ascending order, disjoint and merged.  Filling a hole that
\* begins at the limit leaves an empty entry, which covers nothing.
WellFormed(ranges) ==
    /\ \A i \in DOMAIN ranges : ranges[i].begin <= ranges[i].end + 1
    /\ \A i \in 1 .. Len(ranges) - 1 :
          /\ ranges[i].end < ranges[i+1].begin
          /\ ranges[i].end + 1 = ranges[i+1].begin => ranges[i].tag # ranges[i+1].tag
=============================================================================
