------------------------------- MODULE MCConsole -------------------------------
(***************************************************************************)
(* Two exceptions of one payment and one that came with nothing but its    *)
(* correlation id; each plan has the budget for one kind of trouble.       *)
(***************************************************************************)
EXTENDS Console

\* The first was delivered last but is the oldest in provider time.
MCHooks == <<[id |-> 1, received |-> 3], [id |-> 2, received |-> 1],
             [id |-> 3, received |-> 2]>>

Told3(code, hook) == [code |-> code, pay |-> TRUE, hook |-> hook, corr |-> hook]

MCStory ==
  <<Told3("RETRY_EXHAUSTED", 3), Told3("OUT_OF_ORDER_EVENT", 1),
    [code |-> "INVALID_SIGNATURE", pay |-> FALSE, hook |-> 0, corr |-> 9]>>

Was(type, hook) == [type |-> type, hook |-> hook, corr |-> hook, pay |-> TRUE]

Rejected == [type |-> "WEBHOOK_REJECTED", hook |-> 0, corr |-> 9, pay |-> FALSE]

Retry(status, att) == [status |-> status, att |-> att]

\* One exception, whose webhook waits for a retry, looked into once; the other
\* webhooks were applied on their first attempt.
Quiet ==
  [of |-> {1}, by |-> "stub",
   retry |-> <<Retry("SUCCEEDED", 1), Retry("SUCCEEDED", 1),
               Retry("RETRY_SCHEDULED", 1)>>,
   past |-> <<Was("WEBHOOK_RECEIVED", 1), Was("PAYMENT_STATE_CHANGED", 1),
              Was("WEBHOOK_RECEIVED", 2), Was("PAYMENT_STATE_CHANGED", 2),
              Was("WEBHOOK_RECEIVED", 3), Was("RETRY_SCHEDULED", 3)>>,
   moves |-> {}, pages |-> {"exception"},
   asks |-> 1, echoes |-> 0, opens |-> 1, ticks |-> 0, faults |-> 0,
   calm |-> TRUE]

\* Webhooks have only just been stored, the third without its retry row.
Fresh ==
  [Quiet EXCEPT !.retry = <<Retry("PENDING", 0), Retry("PROCESSING", 1),
                            Retry("NONE", 0)>>,
                !.past = <<Was("WEBHOOK_RECEIVED", 1), Was("WEBHOOK_RECEIVED", 2),
                           Was("WEBHOOK_RECEIVED", 3)>>]

\* Nothing is known but the exception.
Alone ==
  [Quiet EXCEPT !.of = {3}, !.past = << >>,
                !.retry = [h \in 1..3 |-> Retry("NONE", 0)]]

\* Asked for by a caller without a page.
Called(p) == [p EXCEPT !.pages = {}, !.asks = 0, !.opens = 0, !.echoes = 1]

MCPlans ==
  { \* loads and answers overtake each other, on one page or on another
    [Quiet EXCEPT !.asks = 2, !.opens = 2, !.ticks = 1],
    [Quiet EXCEPT !.of = {1, 2}, !.opens = 2, !.faults = 1],
    \* attempts go on while somebody looks into it
    Called([Quiet EXCEPT !.moves = {<<"exhausted", 3, 0>>, <<"applied", 3, 0>>}]),
    Called([Fresh EXCEPT !.moves = {<<"applied", 3, 0>>, <<"found", 3, 0>>}]),
    Called([Fresh EXCEPT !.moves = {<<"postponed", 3, 0>>, <<"delayed", 3, 1>>}]),
    Called([Fresh EXCEPT !.moves = {<<"applied", 1, 0>>, <<"exhausted", 3, 0>>}]),
    [Quiet EXCEPT !.moves = {<<"exhausted", 3, 0>>, <<"conflict", 3, 0>>},
                  !.asks = 2],
    \* a model comes up with anything, over evidence that may contradict itself
    [Quiet EXCEPT !.by = "openai", !.moves = {<<"duplicate", 3, 0>>},
                  !.past = @ \o <<Was("WEBHOOK_CONFLICT", 3)>>],
    [Quiet EXCEPT !.by = "openai", !.faults = 1],
    [Quiet EXCEPT !.by = "unavailable", !.asks = 2, !.faults = 1],
    \* nothing is known but the exception, or what its own request logged
    [Alone EXCEPT !.by = "openai"],
    [Alone EXCEPT !.echoes = 1],
    [Alone EXCEPT !.asks = 2, !.faults = 1],
    [Alone EXCEPT !.past = <<Rejected>>, !.pages = {"incident"}],
    \* incidents, next to what else happens to their payment
    [Fresh EXCEPT !.of = {2}, !.pages = {"incident"}, !.ticks = 1,
                  !.moves = {<<"delayed", 1, 1>>, <<"applied", 3, 0>>}],
    [Quiet EXCEPT !.of = {1, 2}, !.pages = {"incident"}, !.opens = 2, !.faults = 1],
    [Quiet EXCEPT !.of = {1, 2}, !.pages = {"incident"}, !.opens = 2, !.asks = 2] }

\* Two incidents of one payment.
MCPair ==
  { [Quiet EXCEPT !.of = {1, 2}, !.pages = {"incident"}, !.opens = 2] }
=============================================================================
