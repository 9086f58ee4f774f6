----------------------------- MODULE InlinePage -----------------------------
(***************************************************************************)
(* raw-data-bridge, respondPage (server.go:253-302): before a page is      *)
(* served, the payloads its documents keep in object storage are fetched   *)
(* and put in their place.  One goroutine per document, at most            *)
(* inlineConcurrency at a time; each fetch is tried maxAttempts times      *)
(* (s3/s3.go:60-111).  The first goroutine that fails cancels the context  *)
(* of the others, and the whole page is refused.                           *)
(***************************************************************************)
EXTENDS Naturals, FiniteSets

CONSTANTS
    N,                 \* documents of the page
    maxInlinePerPage,  \* external payloads a page may have
    inlineConcurrency, \* goroutines of a page that run at the same time
    maxAttempts        \* tries per fetch

ASSUME SizeAssumption ==
    /\ N \in Nat /\ maxInlinePerPage \in Nat
    /\ inlineConcurrency \in Nat \ {0} /\ maxAttempts \in Nat \ {0}

Docs == 1 .. N

(***************************************************************************)
(* own      the document carries its payload itself                        *)
(* s3       raw_ref is the URN of an object                                *)
(* foreign  raw_ref is of a scheme without retriever, or no URN of S3      *)
(***************************************************************************)
Kinds == {"own", "s3", "foreign"}

VARIABLES
    kind,      \* where the payload of each document is
    pc,        \* the handler: "count", "spawn", then "done"
    next,      \* the document whose goroutine is started next
    go,        \* what the goroutine of each document does
    attempt,   \* failed attempts of each fetch
    rawdata,   \* the payload each document would be served with
    err,       \* the document whose error g.Wait() returns, NoErr if none
    cancelled, \* the context of the group is done
    gone,      \* the client hung up before it was answered
    answer     \* the status of the response

vars == <<kind, pc, next, go, attempt, rawdata, err, cancelled, gone, answer>>

NoErr == 0

\* Type invariant.
TypeOK ==
    /\ kind \in [Docs -> Kinds]
    /\ pc \in {"count", "spawn", "done"}
    /\ next \in 1 .. N + 1
    /\ go \in [Docs -> {"new", "fetch", "backoff", "returned"}]
    /\ attempt \in [Docs -> 0 .. maxAttempts]
    /\ rawdata \in [Docs -> {"missing", "partial", "whole"}]
    /\ err \in Docs \cup {NoErr}
    /\ cancelled \in BOOLEAN /\ gone \in BOOLEAN
    /\ answer \in {"none", "200", "413", "500"}

Init ==
    /\ kind \in [Docs -> Kinds]
    /\ pc = "count"
    /\ next = 1
    /\ go = [i \in Docs |-> "new"]
    /\ attempt = [i \in Docs |-> 0]
    /\ rawdata = [i \in Docs |-> IF kind[i] = "own" THEN "whole" ELSE "missing"]
    /\ err = NoErr
    /\ cancelled = FALSE
    /\ gone = FALSE
    /\ answer = "none"

Running == {i \in Docs : go[i] \in {"fetch", "backoff"}}

-----------------------------------------------------------------------------
(***************************************************************************)
(* The handler.                                                            *)
(***************************************************************************)
Refs == {i \in Docs : kind[i] # "own"}

Respond(status) ==
    /\ pc' = "done"
    /\ answer' = status
    /\ UNCHANGED <<kind, next, go, attempt, rawdata, err, cancelled, gone>>

\* The references are counted before anything is fetched.
Count ==
    /\ pc = "count"
    /\ \/ /\ Cardinality(Refs) > maxInlinePerPage
          /\ Respond("413")
       \/ /\ Cardinality(Refs) <= maxInlinePerPage
          /\ pc' = "spawn"
          /\ UNCHANGED <<kind, next, go, attempt, rawdata, err, cancelled, gone, answer>>

\* g.Go blocks while inlineConcurrency goroutines run.  It does not look at
\* the context: goroutines are started after the page has failed, too.
Go ==
    /\ pc = "spawn"
    /\ next \in Docs
    /\ Cardinality(Running) < inlineConcurrency
    /\ go' = [go EXCEPT ![next] = "fetch"]
    /\ next' = next + 1
    /\ UNCHANGED <<kind, pc, attempt, rawdata, err, cancelled, gone, answer>>

\* MUTANT: the handler answers as soon as the context is done.
Wait_Cancelled ==
    /\ pc = "spawn"
    /\ \/ cancelled
       \/ next = N + 1 /\ \A i \in Docs : go[i] = "returned"
    /\ Respond(IF err = NoErr THEN "200" ELSE "500")

\* g.Wait() returns when every goroutine has.
Wait ==
    /\ pc = "spawn"
    /\ next = N + 1
    /\ \A i \in Docs : go[i] = "returned"
    /\ Respond(IF err = NoErr THEN "200" ELSE "500")

-----------------------------------------------------------------------------
(***************************************************************************)
(* The goroutine of document i.                                            *)
(***************************************************************************)
Return(i) == go' = [go EXCEPT ![i] = "returned"]

\* errgroup keeps the first error and cancels the group's context.
Fail(i) ==
    /\ Return(i)
    /\ err' = IF err = NoErr THEN i ELSE err
    /\ cancelled' = TRUE

InlineNothing(i) ==
    /\ go[i] = "fetch"
    /\ kind[i] = "own"
    /\ Return(i)
    /\ UNCHANGED <<kind, pc, next, attempt, rawdata, err, cancelled, gone, answer>>

NoRetriever(i) ==
    /\ go[i] = "fetch"
    /\ kind[i] = "foreign"
    /\ Fail(i)
    /\ UNCHANGED <<kind, pc, next, attempt, rawdata, gone, answer>>

\* GetObject and ReadAll succeed; an attempt that was under way when the
\* context was cancelled may still do so.
Retrieve(i) ==
    /\ go[i] = "fetch"
    /\ kind[i] = "s3"
    /\ rawdata' = [rawdata EXCEPT ![i] = "whole"]
    /\ Return(i)
    /\ UNCHANGED <<kind, pc, next, attempt, err, cancelled, gone, answer>>

\* MUTANT: an error is returned where the loop should continue.
LastAttempt_First(i) == i \in Docs

LastAttempt(i) == attempt[i] + 1 = maxAttempts

\* MUTANT: what was read before the error is returned.
AttemptFails_Partial(i) ==
    /\ go[i] = "fetch"
    /\ kind[i] = "s3"
    /\ rawdata' = [rawdata EXCEPT ![i] = "partial"]
    /\ Return(i)
    /\ UNCHANGED <<kind, pc, next, attempt, err, cancelled, gone, answer>>

\* MUTANT: a fetch is retried until it succeeds.
AttemptFails_Forever(i) ==
    /\ go[i] = "fetch"
    /\ kind[i] = "s3"
    /\ go' = [go EXCEPT ![i] = "backoff"]
    /\ UNCHANGED <<kind, pc, next, attempt, rawdata, err, cancelled, gone, answer>>

\* GetObject or ReadAll fails: what was read is dropped, and the fetch backs
\* off or, after its last attempt, gives up.
AttemptFails(i) ==
    /\ go[i] = "fetch"
    /\ kind[i] = "s3"
    /\ attempt' = [attempt EXCEPT ![i] = @ + 1]
    /\ IF LastAttempt(i)
          THEN Fail(i)
          ELSE go' = [go EXCEPT ![i] = "backoff"] /\ UNCHANGED <<err, cancelled>>
    /\ UNCHANGED <<kind, pc, next, rawdata, gone, answer>>

\* The timer fires; the select may take it although the context is done.
Retry(i) ==
    /\ go[i] = "backoff"
    /\ go' = [go EXCEPT ![i] = "fetch"]
    /\ UNCHANGED <<kind, pc, next, attempt, rawdata, err, cancelled, gone, answer>>

\* The context is done: its error is the goroutine's.
BackoffCancelled(i) ==
    /\ go[i] = "backoff"
    /\ cancelled
    /\ Fail(i)
    /\ UNCHANGED <<kind, pc, next, attempt, rawdata, gone, answer>>

\* The client hangs up, which cancels the request's context.
ClientGone ==
    /\ answer = "none"
    /\ ~gone
    /\ gone' = TRUE
    /\ cancelled' = TRUE
    /\ UNCHANGED <<kind, pc, next, go, attempt, rawdata, err, answer>>

inlineRawData(i) ==
    \/ InlineNothing(i) \/ NoRetriever(i)
    \/ Retrieve(i) \/ AttemptFails(i) \/ Retry(i) \/ BackoffCancelled(i)

respondPage == Count \/ Go \/ Wait

Next ==
    \/ respondPage
    \/ \E i \in Docs : inlineRawData(i)
    \/ ClientGone

Spec == Init /\ [][Next]_vars

\* The handler and its goroutines run, calls return, timers fire.
Fairness ==
    /\ WF_vars(respondPage)
    /\ \A i \in Docs : WF_vars(inlineRawData(i))

FairSpec == Spec /\ Fairness

-----------------------------------------------------------------------------
(***************************************************************************)
(* Properties                                                              *)
(***************************************************************************)
\* All payloads or none (server.go:254-257): a page that is served has the whole payload of each
\* of its documents, whatever failed and was tried again on the way.
PayloadsWhole ==
    answer = "200" => \A i \in Docs : rawdata[i] = "whole"

\* The error that refuses a page, and is logged for it, is the failure that
\* brought the page down, not one of the cancellations that followed from it:
\* unless the client went away, a reference nobody can resolve or a fetch
\* that used up its attempts.
ErrorIsTheCause ==
    err # NoErr /\ ~gone => kind[err] = "foreign" \/ attempt[err] = maxAttempts

\* When the response is written no goroutine of the page is left that could
\* still write to its documents, and a page refused for its number of
\* references has started none.
NoFetchOutlivesAnswer ==
    answer # "none" => /\ Running = {}
                       /\ answer = "413" => \A i \in Docs : go[i] = "new"

\* Every page is answered, with at most inlineConcurrency goroutines, failing
\* fetches and a client that may be gone.
PageAnswered == <>(answer # "none")
=============================================================================
