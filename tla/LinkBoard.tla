------------------------------ MODULE LinkBoard ------------------------------
(***************************************************************************)
(* What a user of chaos may rely on, whichever front end is used: a board  *)
(* says which faults each pair of nodes may have, and the namespace is     *)
(* made to follow it.  Listings, plans, helper containers, goroutines,     *)
(* timers, the mutex and the state file are gone.  What is left:           *)
(*                                                                         *)
(*   - a node goes from one shaping to the next in a single step, and only *)
(*     to what the board says towards every peer that is up, or, when      *)
(*     something of it was missed, to none at all;                         *)
(*   - shapings change only while somebody works on them;                  *)
(*   - when the work is done, every node that nothing was missed of        *)
(*     follows the board, and still does when a node goes down.            *)
(*                                                                         *)
(* It is implemented by ChaosDashboard and by ChaosCLI (KeepsBoard) as     *)
(* long as no container is started again.                                  *)
(***************************************************************************)
CONSTANTS
  Node,       \* the node containers
  Fault,      \* the faults a link can have
  NoFault,    \* none
  Failing,    \* whether docker may fail a call
  Crashing    \* whether the front end may be killed

VARIABLES
  board,      \* the faults that would do, for each pair
  shaping,    \* the fault each node applies to its traffic towards each other
  alive,      \* the nodes that are up
  missed,     \* the nodes something may have been missed of
  calm,       \* whether nobody works on the shapings
  kept        \* whether somebody keeps the namespace to the board

vars == <<board, shaping, alive, missed, calm, kept>>

Pair == {{a, b} : a, b \in Node} \ {{a} : a \in Node}

Boards == [Pair -> SUBSET Fault]

\* The shapings of node n, and the one that does nothing.
Row(n) == [Node \ {n} -> Fault]
Bare(n) == [m \in Node \ {n} |-> NoFault]

\* The shaping s of node n does what b says towards every node that is up.
Suits(n, s, b) == \A m \in alive \ {n} : s[m] \in b[{n, m}]

\* Every node that is up and nothing was missed of follows b.
Followed(b) == \A n \in alive \ missed : Suits(n, shaping[n], b)

Init ==
  /\ board = [k \in Pair |-> {NoFault}]
  /\ shaping = [n \in Node |-> Bare(n)]
  /\ alive = Node
  /\ missed = {}
  /\ calm = TRUE
  /\ kept = TRUE

-----------------------------------------------------------------------------
\* Somebody sets about a new board.
Ask ==
  /\ calm /\ calm' = FALSE
  /\ board' \in Boards
  /\ UNCHANGED <<shaping, alive, missed, kept>>

\* The board changes, but not what it asks of the nodes that follow it; or
\* nobody keeps to it any more.
Restate ==
  /\ calm
  /\ board' \in Boards
  /\ kept => Followed(board')
  /\ UNCHANGED <<shaping, alive, missed, calm, kept>>

\* The nodes are listed: of those that are up nothing has been missed yet.
Survey ==
  /\ ~calm
  /\ missed' \subseteq Node \ alive
  /\ UNCHANGED <<board, shaping, alive, calm, kept>>

\* A call of docker fails.
Miss ==
  /\ Failing /\ ~calm
  /\ missed \subseteq missed' /\ missed' \subseteq Node
  /\ UNCHANGED <<board, shaping, alive, calm, kept>>

\* Node n's shaping is replaced.
Shape(n) ==
  /\ ~calm
  /\ n \in alive
  /\ \E s \in Row(n) :
       /\ Suits(n, s, board) \/ (n \in missed /\ s = Bare(n))
       /\ shaping' = [shaping EXCEPT ![n] = s]
  /\ UNCHANGED <<board, alive, missed, calm, kept>>

\* The work is done, or given up because nothing could be done.
Settle ==
  /\ ~calm /\ calm' = TRUE
  /\ board' \in Boards
  /\ board' # board => missed = Node
  /\ kept => Followed(board')
  /\ UNCHANGED <<shaping, alive, missed, kept>>

\* Node n goes down, or is found to be.
Down(n) ==
  /\ alive' = alive \ {n}
  /\ shaping' = [a \in Node |-> [b \in Node \ {a} |->
                   IF n \in {a, b} THEN NoFault ELSE shaping[a][b]]]
  /\ missed' = missed \cup {n}
  /\ UNCHANGED <<board, calm, kept>>

\* The board is not kept any more.
Leave ==
  /\ kept' = FALSE
  /\ UNCHANGED <<board, shaping, alive, missed, calm>>

\* Whoever worked on the shapings, or kept the board, is gone.
Abandon ==
  /\ Crashing \/ ~kept
  /\ calm' = TRUE
  /\ board' \in Boards
  /\ missed' = Node
  /\ kept' \in {kept, FALSE}
  /\ UNCHANGED <<shaping, alive>>

\* Somebody takes over, without a look at the namespace.
Resume ==
  /\ ~kept /\ missed = Node
  /\ kept' = TRUE
  /\ board' \in Boards
  /\ UNCHANGED <<shaping, alive, missed, calm>>

Next ==
  \/ Ask
  \/ Restate
  \/ Survey
  \/ Miss
  \/ \E n \in Node : Shape(n) \/ Down(n)
  \/ Settle
  \/ Leave
  \/ Abandon
  \/ Resume

Spec == Init /\ [][Next]_vars

==============================================================================
