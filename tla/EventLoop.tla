----------------------------- MODULE EventLoop -----------------------------
(***************************************************************************)
(* libsponge/util/eventloop.{hh,cc}: rules that wait for a file descriptor *)
(* and call back when it is ready.  The owner of the rules instantiates    *)
(* this module: w is all the state its callbacks read and change, r is one *)
(* of its rules.                                                           *)
(***************************************************************************)
EXTENDS Integers

CONSTANTS
  RuleCount,        \* how many rules were added; each is known by its number
  Reads(_),         \* Direction::In rather than Direction::Out
  AtEof(_, _),      \* fd.eof()
  Interest(_, _),   \* interest()
  Callback(_, _),   \* w after callback()
  Cancel(_, _),     \* w after cancel()
  Serves(_, _),     \* does callback() read or write the descriptor
  Ready(_, _),      \* poll(2) sees the event the rule asks for
  Closed(_, _),     \* fd.closed()
  Hup(_, _),        \* poll(2) sees POLLHUP, asked for or not
  PollError(_, _)   \* poll(2) sees POLLERR or POLLNVAL

\* One turn of the first loop of wait_next_event(): a rule whose descriptor is
\* at its end or closed is cancelled; another is polled, for its event if it is
\* interested.
Consider(set, r) ==
  IF (Reads(r) /\ AtEof(set.w, r)) \/ Closed(set.w, r)
  THEN [set EXCEPT !.w = Cancel(@, r)]
  ELSE [set EXCEPT !.polled = @ \cup {r},
                   !.events = IF Interest(set.w, r) THEN @ \cup {r} ELSE @]

\* _rules, a list from which rules are erased, is the set of those left: they
\* stay in the order in which they were added.
SetUp(w, rules) ==
  LET upTo[r \in 0 .. RuleCount] ==
        IF r = 0 THEN [w |-> w, polled |-> {}, events |-> {}]
        ELSE IF r \in rules THEN Consider(upTo[r - 1], r)
        ELSE upTo[r - 1]
  IN  upTo[RuleCount]

SomethingToPoll(set) == set.events # {}

\* poll(2): what each pollfd says at one moment.
Poll(set) ==
  [r \in set.polled |->
     [events |-> r \in set.events, ready |-> r \in set.events /\ Ready(set.w, r),
      hup |-> Hup(set.w, r), error |-> PollError(set.w, r)]]

\* One turn of the second loop.  A rule whose descriptor has hung up and is not
\* ready is cancelled; one that is ready is called back, even if what made it
\* interested has changed since.  Slip: it is cancelled with bytes to read.
Defunct_on_hup(result) == result.hup /\ result.events
Defunct(result) == result.hup /\ result.events /\ ~result.ready

\* The results that have any effect; none after Result::Timeout.
Effective(results) ==
  [r \in {x \in DOMAIN results : results[x].ready \/ results[x].error \/ Defunct(results[x])}
     |-> results[r]]

\* The rule whose turn it is, and the results left for the others.
First(results) == CHOOSE r \in DOMAIN results : \A x \in DOMAIN results : r <= x
Others(results, r) == [x \in DOMAIN results \ {r} |-> results[x]]

Handle(w, r, result) ==
  IF result.error THEN w
  ELSE IF Defunct(result) THEN Cancel(w, r)
  ELSE IF result.ready THEN Callback(w, r)
  ELSE w

\* A rule that is defunct is erased.
Left(rules, r, result) == IF Defunct(result) THEN rules \ {r} ELSE rules

\* The loop throws if a descriptor is in error, and if a callback neither used
\* its descriptor nor lost its interest: it would be called again at once.
BusyWait(before, after, r, result) ==
  result.ready /\ ~Serves(before, r) /\ Interest(after, r)

Throws(before, after, r, result) == result.error \/ BusyWait(before, after, r, result)
=============================================================================
