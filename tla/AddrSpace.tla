----------------------------- MODULE AddrSpace -----------------------------
(***************************************************************************)
(* What create_page_table, set_page, unset_user_pages and                  *)
(* destroy_page_table promise to the rest of the kernel (kernel/mm.h): an  *)
(* address space is a function from virtual pages to translations, and a   *)
(* call changes the space and the page it names and nothing else.          *)
(* PageTable.tla implements it.                                            *)
(***************************************************************************)
CONSTANTS
  Space,        \* address spaces, one per task
  KernelHalf,   \* virtual page at or above SPLIT -> its translation
  UserPage,     \* the virtual pages below SPLIT
  Mappable,     \* space -> the pages callers map in it
  Memory,       \* space -> the translations that lead to its own memory
  Unmapped,
  None          \* no such address space

VARIABLE space  \* Space -> None or (virtual page -> translation or Unmapped)

Fresh == [va \in UserPage \cup DOMAIN KernelHalf |->
            IF va \in UserPage THEN Unmapped ELSE KernelHalf[va]]

Init == space = [s \in Space |-> None]

Create(s) ==
  /\ space[s] = None
  /\ space' = [space EXCEPT ![s] = Fresh]

Map(s, va, t) ==
  /\ space[s] # None
  /\ space' = [space EXCEPT ![s][va] = t]

\* The kernel's half stays as it is.
ClearUser(s) ==
  /\ space[s] # None
  /\ space' = [space EXCEPT ![s] =
                 [va \in DOMAIN @ |-> IF va \in UserPage THEN Unmapped ELSE @[va]]]

Destroy(s) ==
  /\ space[s] # None
  /\ space' = [space EXCEPT ![s] = None]

Next == \E s \in Space :
  \/ Create(s)
  \/ \E va \in Mappable[s], t \in Memory[s] : Map(s, va, t)
  \/ ClearUser(s)
  \/ Destroy(s)

Spec == Init /\ [][Next]_space

=============================================================================
