---------------------------- MODULE AddressSpace ----------------------------
(***************************************************************************)
(* What a Mapper promises, without page tables: an address space is a set  *)
(* of mappings, each of a page to a frame with flags, in which no two      *)
(* pages overlap.  A call adds one mapping where there was none, removes   *)
(* one, or changes the flags of one; it never moves a page to another      *)
(* frame and never touches two mappings.                                   *)
(***************************************************************************)
EXTENDS Integers, Sequences

CONSTANTS Pages,    \* tuples of table indices, as in PageTable
          Frames,   \* physical frames
          Flags     \* sets of flags

VARIABLE space      \* the mappings

Mapping == [page : Pages, frame : Frames, flags : Flags]

\* One page is the other, or lies inside it.
Overlap(p, q) == \A k \in (1 .. Len(p)) \cap (1 .. Len(q)) : p[k] = q[k]

Init == space = {}

Map ==
  \E x \in space' :
    /\ x \in Mapping
    /\ \A y \in space : ~Overlap(x.page, y.page)
    /\ space' = space \cup {x}

Unmap == \E x \in space : space' = space \ {x}

SetFlags ==
  \E x \in space, y \in space' :
    /\ y.flags \in Flags
    /\ y = [x EXCEPT !.flags = y.flags]
    /\ space' = (space \ {x}) \cup {y}

Next == Map \/ Unmap \/ SetFlags

Spec == Init /\ [][Next]_space
=============================================================================
