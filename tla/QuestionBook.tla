----------------------------- MODULE QuestionBook -----------------------------
(***************************************************************************)
(* What the questions of one item promise to the people who answer them,    *)
(* with no tick, lock, copy or push in sight.  Questions are only added; an *)
(* answer is given once and stays as it was given; the book is closed when  *)
(* no question waits any more, never before, unless the item becomes an     *)
(* artifact and its book goes with it.  Of some kinds one question waits at *)
(* a time.                                                                  *)
(***************************************************************************)
EXTENDS Sequences, Naturals

CONSTANTS
    Verbs,      \* the answers a question of each kind can be given
    Once,       \* the kinds of which one question waits at a time
    Slug        \* the names an artifact can have

VARIABLES
    book,       \* the questions, [ask, answer], oldest first
    minted      \* the artifacts the item became

Open(i) == book[i].answer = "none"

Init == book = <<>> /\ minted = {}

Ask(k) ==
    /\ k \in Once => \A i \in DOMAIN book : book[i].ask = k => ~Open(i)
    /\ book' = Append(book, [ask |-> k, answer |-> "none"])
    /\ UNCHANGED minted

Reply(i, a) ==
    /\ Open(i)
    /\ book' = [book EXCEPT ![i].answer = a]
    /\ UNCHANGED minted

Close ==
    /\ \A i \in DOMAIN book : ~Open(i)
    /\ book' = <<>>
    /\ UNCHANGED minted

Become(s) ==
    /\ s \notin minted
    /\ minted' = minted \cup {s}
    /\ book' = <<>>

Next ==
    \/ \E k \in DOMAIN Verbs : Ask(k)
    \/ \E i \in DOMAIN book : \E a \in Verbs[book[i].ask] : Reply(i, a)
    \/ Close
    \/ \E s \in Slug : Become(s)

Spec == Init /\ [][Next]_<<book, minted>>
=============================================================================
