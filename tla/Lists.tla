------------------------------- MODULE Lists -------------------------------
(***************************************************************************)
(* struct list of kernel/list.h: nodes linked both ways, found through the *)
(* two ends.  A memory is a function from addresses to what is stored      *)
(* there; an operation takes a memory and a list and gives both back.      *)
(* The back pointer to the list, which only list_remove reads, is left     *)
(* out.                                                                    *)
(***************************************************************************)
EXTENDS Integers, SequencesExt

CONSTANT NULL

list_init == [first |-> NULL, last |-> NULL]

list_node_create(value) == [value |-> value, prev |-> NULL, next |-> NULL]

list_push(memory, list, node) ==
  LET old    == list.last
      linked == IF old = NULL THEN memory ELSE [memory EXCEPT ![old].next = node]
  IN  [memory |-> [linked EXCEPT ![node].prev = old],
       list   |-> [first |-> IF list.first = NULL THEN node ELSE list.first,
                   last  |-> node]]

list_insert_before(memory, list, node, pos) ==
  LET old    == memory[pos].prev
      linked == IF old = NULL THEN memory ELSE [memory EXCEPT ![old].next = node]
  IN  [memory |-> [linked EXCEPT ![node].prev = old, ![node].next = pos,
                                 ![pos].prev = node],
       list   |-> [list EXCEPT !.first = IF pos = list.first THEN node ELSE @]]

\* The nodes a loop over the list visits; one longer than the memory has
\* nodes is a cycle.
Walk(memory, list) ==
  LET follow == [s \in Seq(DOMAIN memory) |->
                   LET p == IF s = << >> THEN list.first ELSE memory[Last(s)].next
                   IN  IF p = NULL THEN s ELSE Append(s, p)]
      bound  == Cardinality(DOMAIN memory) + 1
      walk[n \in 0..bound] == IF n = 0 THEN << >> ELSE follow[walk[n - 1]]
  IN  walk[bound]

\* Forward and backward pointers agree, and the ends are the ends.
Linked(memory, list) ==
  LET w == Walk(memory, list) IN
  /\ Len(w) <= Cardinality(DOMAIN memory)
  /\ list.last = IF w = << >> THEN NULL ELSE w[Len(w)]
  /\ \A i \in 1..Len(w) : memory[w[i]].prev = IF i = 1 THEN NULL ELSE w[i - 1]

=============================================================================
