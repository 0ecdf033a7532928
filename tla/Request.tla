------------------------------- MODULE Request -------------------------------
(***************************************************************************)
(* The life of an HTTP request with its subrequests in one worker: who may  *)
(* send to the client (c->data), what waits in the postponed lists, which   *)
(* requests are posted, and what the count of the main request counts       *)
(* (src/http/ngx_http_request.c, ngx_http_postpone_filter_module.c and      *)
(* ngx_http_subrequest()).                                                  *)
(*                                                                          *)
(* A worker runs one handler at a time, and a function calls the next one   *)
(* last: call says which function runs.  Between handlers, at "loop", it    *)
(* takes any event that is there.                                           *)
(***************************************************************************)
EXTENDS Integers, Sequences, FiniteSets, Functions

CONSTANTS
    Main,       \* r->main
    Subs,       \* the subrequests
    NoRequest,
    Data,       \* an item of a response: a part of its own body
    Sites       \* records [script, kind, client]: the items of each response, those
                \* that an upstream sends before it ends or breaks off; which of
                \* a page ("page"), a proxied response ("proxy") or a file that is
                \* read by aio ("file") it is, and what the client does at worst:
                \* "slow" it reads late, "stops" it never reads again, "leaves"

Requests == {Main} \cup Subs

(* NGX_HTTP_MAX_SUBREQUESTS *)
MaxSubrequests == 200

(* A subrequest is an object of its own, made at one place of one response.  *)
(* The response of the main request ends with a buffer, its last one, or the *)
(* one that flushes what came before the upstream broke off.                 *)
OneOfEach(script) ==
    \A r, p \in Requests : \A i \in DOMAIN script[r], j \in DOMAIN script[p] :
        (script[r][i] = script[p][j] /\ script[r][i] \in Subs) => r = p /\ i = j

ASSUME RequestAssumption ==
    /\ Main \notin Subs /\ NoRequest \notin Requests /\ Data \notin Requests \cup {NoRequest}
    /\ IsFiniteSet(Subs) /\ Cardinality(Subs) <= MaxSubrequests
    /\ \A s \in Subs : s \notin Requests \X Nat
    /\ Sites \subseteq [script : [Requests -> Seq(Subs \cup {Data})],
                       kind : [Requests -> {"page", "proxy", "file"}],
                       client : {"slow", "stops", "leaves"}]
    /\ \A x \in Sites :
          /\ \A r \in Requests :
                x.kind[r] = "file" => x.script[r] # <<>> /\ x.script[r] \in Seq({Data})
          /\ OneOfEach(x.script)
          /\ x.script[Main] # <<>> /\ x.script[Main][Len(x.script[Main])] = Data

VARIABLES
    site,
    call,       \* the function that runs: fn, its request and rc
    handler,    \* r->write_event_handler
    reader,     \* r->read_event_handler
    postponed,  \* r->postponed: data and subrequests
    pos,        \* how many items of its script a request has made
    upstream,   \* requests whose u->cleanup is set
    done,       \* r->done
    active,     \* c->data
    posted,     \* main->posted_requests
    count,      \* main->count
    aio,        \* r->aio; there are main->blocked of them
    client,     \* c->buffered, c->error, the timedout of its write event, and
                \* whether the client has closed the connection
    out,        \* the data that went to the client
    freed,      \* the pool of the main request is gone
    torn,       \* history: the request was terminated
    astray,     \* history: while a file was read for another request than
                \* the one that was terminated
    again,      \* history: the phases of a request ran again
    alert       \* history: something else that the code logs as NGX_LOG_ALERT

vars == <<site, call, handler, reader, postponed, pos, upstream, done, active, posted, count,
          aio, client, out, freed, torn, astray, again, alert>>

Fns == {"loop", "posted", "content", "flush", "written", "finalize", "terminate", "connection",
        "close", "event"}
Call(fn, r, rc) == [fn |-> fn, r |-> r, rc |-> rc]
Loop == Call("loop", NoRequest, "ok")
Return == Call("posted", NoRequest, "ok")

Script(r) == site.script[r]
Made(r) == pos[r] = Len(Script(r))
Blocked == aio # {}

(* Slip: the flag NGX_HTTP_COPY_BUFFERED is never cleared. *)
AlwaysBuffered(r) == site.kind[r] = "file" /\ pos[r] >= 0

(* What the copy filter still has to read: NGX_HTTP_COPY_BUFFERED. *)
Buffered(r) == site.kind[r] = "file" /\ pos[r] >= 0 /\ ~Made(r)

NotStarted == -1

Init == /\ site \in Sites
        /\ call = Return
        /\ handler = [r \in Requests |-> "handler"]
        /\ reader = [r \in Requests |-> "none"]
        /\ postponed = [r \in Requests |-> <<>>]
        /\ pos = [r \in Requests |-> NotStarted]
        /\ upstream = {} /\ done = {}
        /\ active = Main /\ posted = <<Main>>
        /\ count = 1 /\ aio = {}
        /\ client = [buffered |-> FALSE, error |-> FALSE, timedout |-> FALSE, gone |-> FALSE]
        /\ out = <<>>
        /\ freed = FALSE /\ torn = FALSE /\ astray = FALSE
        /\ again = FALSE /\ alert = FALSE

Running(fn) == call.fn = fn
Alerts(event) == alert' = (alert \/ event)

(* count has eight bits. *)
Byte(n) == n % 256

-----------------------------------------------------------------------------
(* r->write_event_handler(r), called for a posted request or for an event *)

body == <<postponed, pos, done, active, count, aio, client, out, freed, torn, astray>>

(* ngx_http_handler(): the content is made in the handler, read from a file, *)
(* or asked of an upstream, whose start takes a reference and gives it back. *)
Starts(r) ==
    /\ handler[r] = "handler"
    /\ pos' = [pos EXCEPT ![r] = 0]
    /\ \/ /\ site.kind[r] = "page"
          /\ handler' = [handler EXCEPT ![r] = "phases"]
          /\ call' = Call("content", r, "ok")
          /\ UNCHANGED <<reader, upstream, count, aio>>
       \/ /\ site.kind[r] = "file"
          /\ aio' = aio \cup {r}
          /\ handler' = [handler EXCEPT ![r] = "phases"]
          /\ call' = Call("finalize", r, "ok")
          /\ UNCHANGED <<reader, upstream, count>>
       \/ /\ site.kind[r] = "proxy"
          /\ upstream' = upstream \cup {r}
          /\ handler' = [handler EXCEPT ![r] = "upstream"]
          /\ reader' = [reader EXCEPT ![r] = "broken"]
          /\ call' = Return
          /\ UNCHANGED <<count, aio>>
    /\ UNCHANGED <<postponed, done, active, client, out, freed, torn, astray, again, alert>>

(* ngx_http_upstream_process_downstream(): what the pipe has goes on, or    *)
(* the client has timed out.  When the upstream was finalized nothing does. *)
Downstream(r) ==
    /\ handler[r] = "upstream"
    /\ \/ /\ r \in upstream /\ ~client.timedout
          /\ call' = Call("content", r, "ok")
          /\ UNCHANGED upstream
       \/ /\ r \in upstream /\ client.timedout
          /\ upstream' = upstream \ {r}
          /\ call' = Call("finalize", r, "error")
       \/ (r \in upstream => ~client.timedout) /\ call' = Return /\ UNCHANGED upstream
    /\ UNCHANGED <<handler, reader, body, again, alert>>

(* ngx_http_writer(): the next filters take what they have. *)
Flushes(r) ==
    /\ handler[r] = "writer"
    /\ call' = IF client.timedout THEN Call("finalize", r, "timeout")
               ELSE IF r \in aio THEN Return
               ELSE Call("flush", r, "ok")
    /\ UNCHANGED <<handler, reader, upstream, body, again, alert>>

(* ngx_http_request_finalizer() *)
Finalizer(r) == /\ handler[r] = "finalizer"
                /\ call' = Call("finalize", r, "ok")
                /\ UNCHANGED <<handler, reader, upstream, body, again, alert>>

(* ngx_http_terminate_handler() *)
TerminateHandler(r) == /\ handler[r] = "terminate"
                       /\ count' = 1
                       /\ call' = Call("close", Main, "ok")
                       /\ UNCHANGED <<handler, reader, upstream, postponed, pos, done, active, aio,
                                      client, out, freed, torn, astray, again, alert>>

(* ngx_http_request_empty_handler() *)
Ignores(r) == /\ handler[r] = "empty"
              /\ call' = Return
              /\ UNCHANGED <<handler, reader, upstream, body, again, alert>>

(* The content phase of a request that has been through it: its header was   *)
(* sent already, and ngx_http_send_header() returns NGX_ERROR.               *)
PhasesAgain(r) == /\ handler[r] = "phases"
                  /\ again' = TRUE
                  /\ call' = Call("finalize", r, "error")
                  /\ UNCHANGED <<handler, reader, upstream, body, alert>>

Handle(r) == \/ Starts(r) \/ Downstream(r) \/ Flushes(r) \/ Finalizer(r)
             \/ TerminateHandler(r) \/ Ignores(r) \/ PhasesAgain(r)

(* ngx_http_run_posted_requests() *)
RunPosted == /\ Running("posted") /\ ~freed
             /\ posted # <<>>
             /\ posted' = Tail(posted)
             /\ Handle(Head(posted))
             /\ UNCHANGED site

Idle == /\ Running("posted")
        /\ freed \/ posted = <<>>
        /\ call' = Loop
        /\ UNCHANGED <<site, handler, reader, upstream, body, posted, again, alert>>
-----------------------------------------------------------------------------
(* ngx_http_output_filter(), ngx_http_postpone_filter() and the filters that *)
(* write to the client                                                       *)

Posts(r) == posted' = Append(posted, r)

(* Slip: data goes out whoever may send. *)
AnyRequest(r) == TRUE

MaySend(r) == r = active

(* The data before the first subrequest goes out, and the right to send goes *)
(* to that subrequest.                                                       *)
Sends(r, list) ==
    LET subs == {i \in DOMAIN list : list[i] \in Subs}
        first == CHOOSE i \in subs \cup {Len(list) + 1} : \A j \in subs : i <= j
        data == SubSeq(list, 1, first - 1)
    IN
    /\ ~(client.error /\ (data # <<>> \/ (list = <<>> /\ client.buffered)))
    /\ out' = out \o data
    /\ postponed' = [postponed EXCEPT ![r] = SubSeq(list, first + 1, Len(list))]
    /\ IF subs = {} THEN UNCHANGED <<active, posted>>
       ELSE active' = list[first] /\ Posts(list[first])
    /\ \E b \in BOOLEAN : /\ b => (client.buffered \/ data # <<>>)
                          /\ client.buffered => b
                          /\ client' = [client EXCEPT !.buffered = b]

(* NGX_ERROR: the connection is broken, or is found to be. *)
SendFails(r, list) ==
    /\ client.error \/ client.gone
    /\ list # <<>> \/ client.buffered
    /\ list = <<>> \/ Head(list) \notin Subs
    /\ postponed' = [postponed EXCEPT ![r] = list]
    /\ client' = [client EXCEPT !.error = TRUE]
    /\ upstream' = upstream \ {r}
    /\ call' = Call("finalize", r, "error")
    /\ UNCHANGED <<active, posted, out>>

Output(r, in, next) ==
    LET list == postponed[r] \o in IN
    \/ /\ ~MaySend(r)
       /\ postponed' = [postponed EXCEPT ![r] = list]
       /\ call' = next
       /\ UNCHANGED <<upstream, active, posted, client, out>>
    \/ /\ MaySend(r)
       /\ \/ Sends(r, list) /\ call' = next /\ UNCHANGED upstream
          \/ SendFails(r, list)

-----------------------------------------------------------------------------
(* The content of a page or of a proxied response.  After any item of the    *)
(* latter the handler may return, to wait for the upstream.                  *)

Proceed(r) == {Call("content", r, "ok")} \cup (IF site.kind[r] = "proxy" THEN {Return} ELSE {})

EmitData(r) ==
    LET i == pos[r] + 1 IN
    /\ Running("content") /\ call.r = r /\ ~Made(r) /\ Script(r)[i] = Data
    /\ pos' = [pos EXCEPT ![r] = i]
    /\ \E next \in Proceed(r) : Output(r, <<<<r, i>>>>, next)
    /\ UNCHANGED <<site, handler, reader, done, count, aio, freed, torn, astray, again, alert>>

(* Slip: the right to send goes to each new subrequest. *)
Newest(r) == r = active

FirstInLine(r) == r = active /\ postponed[r] = <<>>

(* Slip: a subrequest takes no reference. *)
NoReference(n) == n

Referred(n) == Byte(n + 1)

(* ngx_http_subrequest() *)
Subrequest(r) ==
    LET sub == Script(r)[pos[r] + 1] IN
    /\ Running("content") /\ call.r = r /\ ~Made(r) /\ sub \in Subs
    /\ pos' = [pos EXCEPT ![r] = @ + 1]
    /\ reader' = [reader EXCEPT ![sub] = "empty"]
    /\ active' = IF FirstInLine(r) THEN sub ELSE active
    /\ postponed' = [postponed EXCEPT ![r] = Append(@, sub)]
    /\ count' = Referred(count)
    /\ Posts(sub)
    /\ call' \in Proceed(r)
    /\ UNCHANGED <<site, handler, upstream, done, aio, client, out, freed, torn, astray, again, alert>>

(* ngx_http_upstream_finalize_request(), or the return of the handler.  An    *)
(* upstream that breaks off after its header (NGX_HTTP_BAD_GATEWAY) ends as   *)
(* one that is done does: what ngx_http_send_special() returns takes the      *)
(* place of NGX_ERROR, and the page goes on.                                  *)
EndContent(r) == /\ Running("content") /\ call.r = r /\ Made(r)
                 /\ upstream' = upstream \ {r}
                 /\ call' = Call("finalize", r, "ok")
                 /\ UNCHANGED <<site, handler, reader, body, posted, again, alert>>

(* ngx_http_writer() calls the filters with no data of its own; the copy     *)
(* filter adds what was read of a file, and starts to read more.             *)
Flush(r) ==
    LET i == pos[r] + 1
        more == Buffered(r)
    IN
    /\ Running("flush") /\ call.r = r
    /\ pos' = [pos EXCEPT ![r] = IF more THEN i ELSE @]
    /\ aio' = IF more /\ i < Len(Script(r)) THEN aio \cup {r} ELSE aio
    /\ Output(r, IF more THEN <<<<r, i>>>> ELSE <<>>, Call("written", r, "ok"))
    /\ UNCHANGED <<site, handler, reader, done, count, freed, torn, astray, again, alert>>

Unsent(r) == Buffered(r) \/ postponed[r] # <<>> \/ (r = Main /\ client.buffered)

Written(r) == /\ Running("written") /\ call.r = r
              /\ IF Unsent(r) THEN call' = Return /\ UNCHANGED handler
                 ELSE /\ handler' = [handler EXCEPT ![r] = "empty"]
                      /\ call' = Call("finalize", r, "ok")
              /\ UNCHANGED <<site, reader, upstream, body, posted, again, alert>>

-----------------------------------------------------------------------------
(* ngx_http_finalize_request() *)

Finalizes(r) == Running("finalize") /\ call.r = r

FinalizeDone(r) == /\ Finalizes(r) /\ call.rc = "done"
                   /\ call' = Call("connection", r, "ok")
                   /\ UNCHANGED <<site, handler, reader, upstream, body, posted, again, alert>>

Failed == call.rc \in {"error", "timeout", "closed"} \/ (call.rc # "done" /\ client.error)

FinalizeError(r) == /\ Finalizes(r) /\ Failed
                    /\ handler' = IF Blocked THEN [handler EXCEPT ![r] = "finalizer"] ELSE handler
                    /\ call' = Call("terminate", r, "ok")
                    /\ UNCHANGED <<site, reader, upstream, body, posted, again, alert>>

(* Slip: a subrequest that has made its content is finished, whatever waits  *)
(* in its postponed list.                                                    *)
OnlyBuffered(r) == Buffered(r) \/ (r = Main /\ (client.buffered \/ Blocked))

Pending(r) == Unsent(r) \/ (r = Main /\ Blocked)

(* ngx_http_set_write_handler() *)
FinalizeLater(r) == /\ Finalizes(r) /\ call.rc = "ok" /\ ~Failed
                    /\ Pending(r)
                    /\ handler' = [handler EXCEPT ![r] = "writer"]
                    /\ reader' = [reader EXCEPT ![r] = "test"]
                    /\ call' = Return
                    /\ UNCHANGED <<site, upstream, body, posted, again, alert>>

Parent(r) == CHOOSE p \in Requests : r \in Range(Script(p))

DropFirst(list, r) == IF list # <<>> /\ Head(list) = r THEN Tail(list) ELSE list

FinalizeActive(r) ==
    /\ Finalizes(r) /\ call.rc = "ok" /\ ~Failed
    /\ r \in Subs /\ ~Pending(r)
    /\ r = active
    /\ count' = Byte(count - 1)
    /\ done' = done \cup {r} /\ Alerts(r \in done)
    /\ postponed' = [postponed EXCEPT ![Parent(r)] = DropFirst(@, r)]
    /\ active' = Parent(r)
    /\ Posts(Parent(r))
    /\ call' = Return
    /\ UNCHANGED <<site, handler, reader, pos, upstream, aio, client, out, freed, torn, astray,
                   again>>

(* It has nothing to send, and is finalized again when its turn comes. *)
FinalizeEarly(r) == /\ Finalizes(r) /\ call.rc = "ok" /\ ~Failed
                    /\ r \in Subs /\ ~Pending(r)
                    /\ r # active
                    /\ handler' = [handler EXCEPT ![r] = "finalizer"]
                    /\ Posts(Parent(r))
                    /\ call' = Return
                    /\ UNCHANGED <<site, reader, upstream, body, again, alert>>

FinalizeMain == /\ Finalizes(Main) /\ call.rc = "ok" /\ ~Failed
                /\ ~Pending(Main)
                /\ Alerts(Main # active)
                /\ IF Main # active THEN call' = Return /\ UNCHANGED <<handler, done>>
                   ELSE /\ done' = done \cup {Main}
                        /\ handler' = [handler EXCEPT ![Main] = "empty"]
                        /\ call' = Call("connection", Main, "ok")
                /\ UNCHANGED <<site, reader, postponed, pos, upstream, active, posted, count, aio,
                               client, out, freed, torn, astray, again>>
-----------------------------------------------------------------------------
(* The end of a request *)

(* ngx_http_terminate_request(): the cleanups finalize the upstreams that    *)
(* are under way with NGX_DONE.                                              *)
Terminate ==
    LET under == Cardinality(upstream) IN
    /\ Running("terminate")
    /\ torn' = TRUE /\ astray' = (astray \/ aio \notin {{}, {call.r}})
    /\ Alerts(count <= under)
    /\ count' = Byte(count - under)
    /\ upstream' = {}
    /\ call' = Return
    /\ IF Blocked THEN UNCHANGED <<handler, posted>>
       ELSE /\ handler' = [handler EXCEPT ![Main] = "terminate"]
            /\ posted' = <<Main>>
    /\ UNCHANGED <<site, reader, postponed, pos, done, active, aio, client, out, freed,
                   again>>

(* ngx_http_finalize_connection(): the last reference goes now, with the     *)
(* start of keepalive, or after lingering.  (That the client's end was read   *)
(* before, which the main request looks at, is one more reason for "now".)    *)
FinalizeConnection ==
    /\ Running("connection")
    /\ \/ call' = Call("close", Main, "ok") /\ UNCHANGED <<reader, freed>>
       \/ count = 1 /\ freed' = TRUE /\ call' = Return /\ UNCHANGED reader
       \/ /\ count = 1
          /\ reader' = [reader EXCEPT ![Main] = "linger"]
          /\ call' = Return /\ UNCHANGED freed
    /\ UNCHANGED <<site, handler, postponed, pos, upstream, done, active, posted, count, aio, client,
                   out, torn, astray, again, alert>>

(* ngx_http_close_request(): "http request count is zero".  (The cleanups    *)
(* that ngx_http_free_request() runs find no upstream: CountIsKept.)         *)
Close == /\ Running("close")
         /\ Alerts(count = 0)
         /\ count' = Byte(count - 1)
         /\ freed' = (count = 1 /\ ~Blocked)
         /\ call' = Return
         /\ UNCHANGED <<site, handler, reader, postponed, pos, upstream, done, active, posted, aio,
                        client, out, torn, astray, again>>

-----------------------------------------------------------------------------
(* Events *)

Waits == Running("loop") /\ ~freed

UpstreamEvent(r) == /\ Waits /\ r \in upstream
                    /\ call' = Call("content", r, "ok")
                    /\ UNCHANGED <<site, handler, reader, upstream, body, posted, again, alert>>

(* NGX_ABORT of ngx_event_pipe(), once the header was sent to the client. *)
PipeAborts(r) == /\ Waits /\ r \in upstream
                 /\ upstream' = upstream \ {r}
                 /\ call' = Call("finalize", r, "error")
                 /\ UNCHANGED <<site, handler, reader, body, posted, again, alert>>

(* ngx_http_copy_aio_event_handler(): the write handler of the connection    *)
(* runs, which is that of the request that may send.                         *)
AioDone(r) ==
    /\ Waits /\ r \in aio
    /\ aio' = aio \ {r}
    /\ call' = Call("event", r, "ok")
    /\ UNCHANGED <<site, handler, reader, postponed, pos, upstream, done, active, posted, count,
                   client, out, freed, torn, astray, again, alert>>

Writable == /\ Waits /\ client.buffered /\ site.client # "stops"
            /\ client' = [client EXCEPT !.buffered = FALSE]
            /\ call' = Call("event", active, "ok")
            /\ UNCHANGED <<site, handler, reader, postponed, pos, upstream, done, active, posted,
                           count, aio, out, freed, torn, astray, again, alert>>

SendTimeout == /\ Waits
               /\ handler[active] = "writer" \/ (active \in upstream /\ client.buffered)
               /\ client' = [client EXCEPT !.timedout = TRUE]
               /\ call' = Call("event", active, "ok")
               /\ UNCHANGED <<site, handler, reader, postponed, pos, upstream, done, active, posted,
                              count, aio, out, freed, torn, astray, again, alert>>

(* ngx_http_request_handler() of a write event *)
WriteEvent == /\ Running("event")
              /\ Handle(active)
              /\ UNCHANGED <<site, posted>>

(* The client closes the connection; who notices is the read handler of the  *)
(* request that may send: ngx_http_test_reading(), that of an upstream       *)
(* (which has been finalized, or not), that of a lingering close, or nobody. *)
Noticed(r) == CASE reader[r] = "test" -> Call("finalize", r, "closed")
                [] reader[r] = "broken" -> Call("finalize", r, IF r \in upstream THEN "closed"
                                                               ELSE "done")
                [] reader[r] = "linger" -> Call("close", Main, "ok")
                [] OTHER -> Loop

ClientLeaves ==
    LET r == active IN
    /\ Waits /\ site.client = "leaves" /\ ~client.gone
    /\ client' = [client EXCEPT !.gone = TRUE, !.error = @ \/ reader[r] \in {"test", "broken"}]
    /\ upstream' = IF reader[r] = "broken" THEN upstream \ {r} ELSE upstream
    /\ call' = Noticed(r)
    /\ UNCHANGED <<site, handler, reader, postponed, pos, done, active, posted, count, aio, out,
                   freed, torn, astray, again, alert>>

(* ngx_http_lingering_close_handler(), in the end by its timer. *)
Lingered == /\ Waits /\ reader[active] = "linger"
            /\ call' = Call("close", Main, "ok")
            /\ UNCHANGED <<site, handler, reader, upstream, body, posted, again, alert>>

-----------------------------------------------------------------------------
Content(r) == EmitData(r) \/ Subrequest(r) \/ EndContent(r) \/ Flush(r) \/ Written(r)

Finalize(r) == \/ FinalizeDone(r) \/ FinalizeError(r) \/ FinalizeLater(r)
               \/ FinalizeActive(r) \/ FinalizeEarly(r)

Events == \/ \E r \in Requests : UpstreamEvent(r) \/ PipeAborts(r) \/ AioDone(r)
          \/ Writable \/ SendTimeout \/ Lingered

Work == \/ RunPosted \/ Idle \/ WriteEvent
        \/ \E r \in Requests : Content(r) \/ Finalize(r)
        \/ FinalizeMain \/ Terminate \/ FinalizeConnection \/ Close

Next == Work \/ Events \/ ClientLeaves

Spec == Init /\ [][Next]_vars

(* The worker runs, and of what can happen something happens: upstreams      *)
(* answer or time out, reads of files end, clients read or time out.  A      *)
(* request has finitely many events, so no one of them can be put off for    *)
(* ever.                                                                     *)
FairSpec == Spec /\ WF_vars(Work \/ Events)

-----------------------------------------------------------------------------
Items == Subs \cup (Requests \X (Nat \ {0}))

TypeOK ==
    /\ site \in Sites
    /\ call \in [fn : Fns, r : Requests \cup {NoRequest},
                  rc : {"ok", "done", "error", "timeout", "closed"}]
    /\ handler \in [Requests -> {"handler", "phases", "upstream", "writer", "finalizer",
                                 "terminate", "empty"}]
    /\ reader \in [Requests -> {"none", "empty", "broken", "test", "linger"}]
    /\ postponed \in [Requests -> Seq(Items)]
    /\ pos \in [Requests -> Int]
    /\ \A r \in Requests : pos[r] \in NotStarted..Len(Script(r))
    /\ {upstream, done, aio} \subseteq SUBSET Requests
    /\ active \in Requests /\ posted \in Seq(Requests)
    /\ count \in 0..255
    /\ client \in [buffered : BOOLEAN, error : BOOLEAN, timedout : BOOLEAN, gone : BOOLEAN]
    /\ out \in Seq(Requests \X (Nat \ {0}))
    /\ {freed, torn, astray, again, alert} \subseteq BOOLEAN

(* Above(r): r, and the requests in whose responses the response of r stands. *)
Around == [x \in Sites |-> [r \in Requests |->
              {q \in Requests : \A A \in SUBSET Requests :
                  (r \in A /\ \A p \in Requests : Range(x.script[p]) \cap A # {} => p \in A)
                     => q \in A}]]

Above(r) == Around[site][r]

(* The part y of a response is the item a of p, or stands in the response to it. *)
Toward(p, y) == {a \in DOMAIN Script(p) : y = <<p, a>> \/ Script(p)[a] \in Above(y[1])}

Before(y, z) == \E p \in Requests : \E a \in Toward(p, y), b \in Toward(p, z) : a < b

(* The parts of the page. *)
Whole == {y \in UNION {{r} \X DOMAIN Script(r) : r \in Requests} :
             Main \in Above(y[1]) /\ Script(y[1])[y[2]] = Data}

(* The client gets the parts of all responses in the order in which they     *)
(* stand in the page, whatever the order in which they are made.  Until the  *)
(* request is terminated none that was delivered is passed over, and all of  *)
(* them are sent before it ends.  (What an upstream that broke off has not   *)
(* delivered is no part: the page ends without it, as if it were complete.)  *)
(* (Afterwards parts may miss: a request that is terminated while a file is  *)
(* being read for it goes on with what it has.)                              *)
InOrder ==
    /\ Range(out) \subseteq Whole
    /\ \A i, j \in DOMAIN out : i < j => Before(out[i], out[j])
    /\ ~astray => /\ \A x \in Range(out), y \in Whole \ Range(out) : Before(x, y)
                  /\ Main \in done => Whole \subseteq Range(out)

(* count is the main request and the subrequests that are not finished, and  *)
(* the pool goes when nothing uses it: no file is being read into it, no     *)
(* upstream answers into it, and no subrequest is left unless all of them    *)
(* were terminated.                                                          *)
Unfinished == {s \in Subs : reader[s] # "none"} \ done

CountIsKept == /\ (~torn /\ ~freed) => count = 1 + Cardinality(Unfinished)
               /\ (freed /\ ~astray) => /\ aio = {} /\ upstream = {}
                                        /\ torn \/ Unfinished = {}

(* What the code logs as impossible does not happen: the count is zero       *)
(* before its last use, the main request ends while a subrequest may send, a *)
(* subrequest ends twice.  (When the phases of a request run again, which    *)
(* logs "header already sent", a subrequest may end twice.)                  *)
NoAlert == alert => astray \/ again

(* Every request ends, and its pool is freed. *)
RequestEnds == <>(freed \/ astray)
=============================================================================
