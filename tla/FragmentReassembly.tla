------------------------- MODULE FragmentReassembly -------------------------
(***************************************************************************)
(* internal/ike/fragment.go: reassembly of the encrypted fragments of the  *)
(* messages of one peer.  ReassembleFragment runs in every read loop that  *)
(* has received a fragment; it takes the manager's lock to find the cache, *)
(* the cache's to add to it and again to reassemble, and the manager's to  *)
(* remove it, and holds none of them in between.  Caches are objects: a    *)
(* loop may hold one that has left the manager's map.  The first payload   *)
(* type, which is returned beside the plaintext, is left out.              *)
(***************************************************************************)
EXTENDS Integers, Sequences, FiniteSets

CONSTANTS
    Loops,  \* read loops
    FragIDs \* message IDs of fragmented messages

VARIABLES
    caches,  \* FragmentManager.caches: message ID to cache number, 0 for none
    objects, \* the caches ever made
    loops    \* what each loop is doing

fragmentVars == <<caches, objects, loops>>

NewFragmentCache == [total |-> 0, fragments |-> <<>>]
NewFragmentManager == caches = [m \in FragIDs |-> 0] /\ objects = <<>>

Idle == [pc |-> "idle"]

(***************************************************************************)
(* A fragment is [id, num, total]; its plaintext is named by num and total.*)
(* AddFragment gives the cache it leaves and whether that is complete.     *)
(***************************************************************************)
AddFragmentAnyTotal(fc, frag) ==
    LET added == [total |-> frag.total,
                  fragments |-> [k \in DOMAIN fc.fragments \cup {frag.num} |->
                                    IF k = frag.num THEN <<frag.total, frag.num>> ELSE fc.fragments[k]]]
    IN  [fc |-> added, complete |-> Cardinality(DOMAIN added.fragments) = added.total]
AddFragmentForgets(fc, frag) ==
    [fc |-> [total |-> frag.total, fragments |-> [k \in {frag.num} |-> <<frag.total, frag.num>>]],
     complete |-> frag.total = 1]
AddFragment(fc, frag) ==
    LET added == [total |-> frag.total,
                  fragments |-> [k \in DOMAIN fc.fragments \cup {frag.num} |->
                                    IF k = frag.num THEN <<frag.total, frag.num>> ELSE fc.fragments[k]]]
    IN  IF \/ frag.num = 0 \/ frag.num > frag.total
           \/ fc.total /= 0 /\ fc.total /= frag.total
        THEN [fc |-> fc, complete |-> FALSE]
        ELSE [fc |-> added, complete |-> Cardinality(DOMAIN added.fragments) = added.total]

GetOrCreate(l) ==
    /\ loops[l].pc = "get"
    /\ LET id == loops[l].frag.id IN
       IF caches[id] /= 0
       THEN /\ loops' = [loops EXCEPT ![l] = [pc |-> "add", frag |-> @.frag, cache |-> caches[id]]]
            /\ UNCHANGED <<caches, objects>>
       ELSE /\ objects' = Append(objects, NewFragmentCache)
            /\ caches' = [caches EXCEPT ![id] = Len(objects')]
            /\ loops' = [loops EXCEPT ![l] = [pc |-> "add", frag |-> @.frag, cache |-> Len(objects')]]

Add(l) ==
    /\ loops[l].pc = "add"
    /\ LET out == AddFragment(objects[loops[l].cache], loops[l].frag) IN
       /\ objects' = [objects EXCEPT ![loops[l].cache] = out.fc]
       /\ loops' = [loops EXCEPT ![l] = IF out.complete THEN [@ EXCEPT !.pc = "reassemble"] ELSE Idle]
    /\ UNCHANGED caches

\* The fragments in the order of their numbers, or nothing when one is missing.
Reassemble(l) ==
    /\ loops[l].pc = "reassemble"
    /\ LET fc == objects[loops[l].cache]
           whole == fc.total /= 0 /\ DOMAIN fc.fragments = 1 .. fc.total
       IN  loops' = [loops EXCEPT ![l] =
                        [pc |-> "remove", frag |-> @.frag,
                         plaintext |-> IF whole THEN [k \in 1 .. fc.total |-> fc.fragments[k]] ELSE <<>>]]
    /\ UNCHANGED <<caches, objects>>

\* Whatever cache is in the map, which need not be the one reassembled.
Remove(l) ==
    /\ loops[l].pc = "remove"
    /\ caches' = [caches EXCEPT ![loops[l].frag.id] = 0]
    /\ loops' = [loops EXCEPT ![l] = Idle]
    /\ UNCHANGED objects

FragmentTypeOK ==
    /\ caches \in [FragIDs -> 0 .. Len(objects)]
    /\ \A o \in DOMAIN objects :
          DOMAIN objects[o].fragments \subseteq 1 .. objects[o].total
    /\ \A l \in Loops : loops[l].pc \in {"idle", "get", "add", "reassemble", "remove"}
=============================================================================
