---------------------------- MODULE OwnedSequences ----------------------------
(***************************************************************************)
(* What a Jadren program may rely on when it keeps owning values in a      *)
(* Buffer: the buffer is a sequence of values and every operation on it is *)
(* an operation on that sequence.  Nothing is said of allocations, slots   *)
(* and capacities.  A call does what its name and arguments say when it    *)
(* reports Ok, and nothing when it reports an error.                       *)
(***************************************************************************)
EXTENDS Naturals, Sequences

CONSTANTS Buffers, Variables,
          Zero(_),     \* the value of zeroed storage of a buffer or variable
          MaxLength    \* bound: elements of a buffer

VARIABLES content,     \* the sequence in each buffer
          value,       \* the value in each of the program's own variables
          call         \* the last call: operation, arguments and status

vars == <<content, value, call>>

Ok(op, args) == [op |-> op, args |-> args, status |-> "Ok"]

Init == /\ content = [o \in Buffers |-> <<>>]
        /\ value = [v \in Variables |-> Zero(v)]
        /\ call = Ok("none", <<>>)

\* The program computes a value into a variable that holds none, or drops it.
Compute(v) ==
  /\ value[v] = Zero(v) \/ value'[v] = Zero(v)
  /\ \A w \in Variables \ {v} : value'[w] = value[w]
  /\ UNCHANGED content

Insert(o, i, v) ==
  /\ content' = [content EXCEPT ![o] =
                   SubSeq(@, 1, i - 1) \o <<value[v]>> \o SubSeq(@, i, Len(@))]
  /\ value' = [value EXCEPT ![v] = Zero(v)]

Without(s, i) == SubSeq(s, 1, i - 1) \o SubSeq(s, i + 1, Len(s))

Remove(o, i, v) ==
  /\ value[v] = Zero(v)
  /\ value' = [value EXCEPT ![v] = content[o][i]]
  /\ content' = [content EXCEPT ![o] = Without(@, i)]

Drop(o, i) ==
  /\ content' = [content EXCEPT ![o] = Without(@, i)]
  /\ UNCHANGED value

\* A longer sequence is padded with zero values.
Resize(o, n) ==
  /\ content' = [content EXCEPT ![o] =
                   [j \in 1..n |-> IF j <= Len(@) THEN @[j] ELSE Zero(o)]]
  /\ UNCHANGED value

\* A call that manages storage, whether it succeeds or not.
Storage == call'.op \in {"create", "reserve", "region"} /\ UNCHANGED <<content, value>>

\* Any call that reports an error.
Failed == call'.status # "Ok" /\ UNCHANGED <<content, value>>

Next ==
  \/ \E v \in Variables : call' = Ok("compute", <<v>>) /\ Compute(v)
  \/ \E o \in Buffers :
       \/ \E i \in 1..(Len(content[o]) + 1), v \in Variables :
            call' = Ok("insert", <<o, i, v>>) /\ Insert(o, i, v)
       \/ \E i \in 1..Len(content[o]), v \in Variables :
            call' = Ok("remove", <<o, i, v>>) /\ Remove(o, i, v)
       \/ \E i \in 1..Len(content[o]) : call' = Ok("drop", <<o, i>>) /\ Drop(o, i)
       \/ \E n \in 0..MaxLength : call' = Ok("resize", <<o, n>>) /\ Resize(o, n)
       \/ call' = Ok("destroy", <<o>>) /\ Resize(o, 0)
  \/ Storage
  \/ Failed

Spec == Init /\ [][Next]_vars
=============================================================================
