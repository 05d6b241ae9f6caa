----------------------------- MODULE MCUserArgs -----------------------------
(***************************************************************************)
(* Instances of UserArgsProps for TLC.                                     *)
(***************************************************************************)
EXTENDS UserArgsProps

ShortStrings == {<< >>, <<1>>, <<3, 4, 5>>}

\* Lists that fill a buffer or the page of the stack to the last unit, with
\* strings or with pointers, lists that need one more, and smaller ones.
Lists ==
  {<< >>} \cup {<<s>> : s \in ShortStrings} \cup {<<<<2, 2>>, s>> : s \in ShortStrings}
  \cup {<<[k \in 1..(ARG_MAX - 2 * W - n) |-> 9]>> : n \in {0, 1}}
  \cup {[k \in 1..((ARG_MAX \div W) - n) |-> << >>] : n \in {0, 1}}

Arrays ==
  [ok : {TRUE}, strings : Lists, unreadable : {{}}]
  \cup {[ok |-> FALSE, strings |-> << >>, unreadable |-> {}],
        [ok |-> TRUE, strings |-> <<<<1>>, <<1>>>>, unreadable |-> {0}],
        [ok |-> TRUE, strings |-> <<<<1>>, <<1>>>>, unreadable |-> {2}]}

ArgCalls == [argv : Arrays, envp : Arrays]

FirstName == <<7>>

=============================================================================
