------------------------------- MODULE EventLoop -------------------------------
(***************************************************************************)
(* class EventLoop (eventloop.hh, .cc): one call of wait_next_event, in    *)
(* the pieces between which other threads can run.  A rule is a record     *)
(* with its name, its file descriptor fd and its direction.  A descriptor  *)
(* is described by a record f: eof and closed, and what poll reports of    *)
(* it, readable, writable, hup and error.                                  *)
(***************************************************************************)
EXTENDS Integers, Sequences, SequencesExt

Rule(name, fd, direction) == [name |-> name, fd |-> fd, direction |-> direction]

Finished(rule, f) == (rule.direction = "In" /\ f.eof) \/ f.closed

\* The first loop of wait_next_event cancels the rules that are finished and
\* asks the others, in order, whether they are interested.  Before it, with the
\* state s that the rules act on:
NewPollfds(s) == [s |-> s, rules |-> << >>, events |-> << >>]

\* One turn of it, for a rule on a descriptor f that is interested or not, and
\* whose cancel callback would make the state cancelled.
pollfds(acc, rule, f, interested, cancelled) ==
  IF Finished(rule, f) THEN [acc EXCEPT !.s = cancelled]
  ELSE [acc EXCEPT !.rules = Append(@, rule), !.events = Append(@, interested)]

something_to_poll(events) == \E k \in DOMAIN events : events[k]

\* What poll reports of one rule: hangups and errors whether asked or not.
revents(rule, asked, f) ==
  [ready |-> asked /\ (IF rule.direction = "In" THEN f.readable ELSE f.writable),
   hup   |-> f.hup, error |-> f.error]

\* With a sequence of the rules' descriptors.
poll(rules, events, fds) ==
  [k \in DOMAIN rules |-> revents(rules[k], events[k], fds[k])]

\* poll returns before its timeout.
PollReturns(results) ==
  \E k \in DOMAIN results : results[k].ready \/ results[k].hup \/ results[k].error

\* What the second loop does with one rule.
Verdict(asked, result) ==
  CASE result.error                                                  -> "throw"
    [] ~ result.error /\ result.hup /\ asked /\ ~ result.ready       -> "cancel"
    [] ~ result.error /\ result.ready                                -> "call"
    [] OTHER                                                         -> "skip"

\* The callback neither used the descriptor nor lost interest.
BusyWait(served, interested) == ~ served /\ interested

\* Where a call of wait_next_event is: at its top, in poll, serving rule k, or
\* returned with Success or Timeout ("served") or with Exit ("left").
NewLoop(rules) == [pc |-> "top", rules |-> rules, events |-> << >>, results |-> << >>, k |-> 0]

\* With the outcome p of pollfds.
Polling(l, p) ==
  [l EXCEPT !.rules = p.rules, !.events = p.events,
            !.pc = IF something_to_poll(p.events) THEN "poll" ELSE "left"]

Served(l) == [l EXCEPT !.pc = "served", !.events = << >>, !.results = << >>, !.k = 0]

\* At the first rule from k on that poll has something about.
ServeFrom(l, k) ==
  LET more == {j \in k .. Len(l.rules) : Verdict(l.events[j], l.results[j]) # "skip"}
  IN  IF more = {} THEN Served(l)
      ELSE [l EXCEPT !.pc = "serving", !.k = CHOOSE j \in more : \A i \in more : j <= i]

\* With the rule being served erased.
Erased(l) ==
  [l EXCEPT !.rules = RemoveAt(@, l.k), !.events = RemoveAt(@, l.k), !.results = RemoveAt(@, l.k)]
===============================================================================
