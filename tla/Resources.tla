------------------------------- MODULE Resources ----------------------------
(***************************************************************************)
(* What the tables networks, subnets and tags promise together: a resource *)
(* has a description and tags; a request to create or change it takes      *)
(* effect as a whole or not at all, and the deletion of a network takes    *)
(* its subnets along.                                                      *)
(***************************************************************************)
CONSTANTS Req, Uuid, Desc, Tag, Nil,
          Parent            \* [Uuid -> the network of a subnet, or Nil]

Contents == [desc : Desc, tags : SUBSET Tag]

VARIABLES
    content,                \* [Uuid -> Contents or Nil]
    asked                   \* [Req -> the write it is about, or Nil]

\* to = Nil asks for a deletion.
Writes == [id : Uuid, to : Contents \cup {Nil}]

Init ==
    /\ content = [x \in Uuid |-> Nil]
    /\ asked = [r \in Req |-> Nil]

Ask(r) ==
    /\ asked[r] = Nil
    /\ \E w \in Writes : asked' = [asked EXCEPT ![r] = w]
    /\ UNCHANGED content

Effect(w) ==
    [x \in Uuid |-> IF x = w.id \/ (w.to = Nil /\ Parent[x] = w.id) THEN w.to
                    ELSE content[x]]

Execute(r) ==
    /\ asked[r] # Nil
    /\ content' = Effect(asked[r])
    /\ asked' = [asked EXCEPT ![r] = Nil]

Refuse(r) ==
    /\ asked[r] # Nil
    /\ asked' = [asked EXCEPT ![r] = Nil]
    /\ UNCHANGED content

Next == \E r \in Req : Ask(r) \/ Execute(r) \/ Refuse(r)

Spec == Init /\ [][Next]_<<content, asked>>
=============================================================================
