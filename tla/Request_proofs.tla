--------------------------- MODULE Request_proofs ----------------------------
(***************************************************************************)
(* Proofs about the life of a request, for any responses, any subrequests    *)
(* that NGX_HTTP_MAX_SUBREQUESTS allows and any client.                      *)
(*                                                                           *)
(* Two kinds of history are told apart.  Before ngx_http_terminate_request() *)
(* the requests that exist form a tree, one path of it leads from the main   *)
(* request to the one that may send, and the count is exact.  After it the   *)
(* main request is about to be closed, or a file is still being read and     *)
(* what was posted before runs on with a count that only has bounds.         *)
(*                                                                           *)
(* The second half is about the order in which the client gets the parts of  *)
(* a page: what was sent comes before all that is still to be sent, and      *)
(* until a termination every part that was not sent is accounted for.        *)
(***************************************************************************)
EXTENDS Request, SumTheorems, SequenceTheorems, FiniteSetTheorems, TLAPS

Kinds == {"page", "proxy", "file"}
CallTypes == [fn : Fns, r : Requests \cup {NoRequest},
              rc : {"ok", "done", "error", "timeout", "closed"}]
ClientType == [buffered : BOOLEAN, error : BOOLEAN, timedout : BOOLEAN, gone : BOOLEAN]
HandlerTypes == {"handler", "phases", "upstream", "writer", "finalizer", "terminate", "empty"}
ReaderTypes == {"none", "empty", "broken", "test", "linger"}

(* The functions that are no function of one request. *)
Fn == {"loop", "posted", "event"}

(* The requests that exist. *)
Live == {Main} \cup {s \in Subs : reader[s] # "none"}
Undone == Live \ done

On(r, fns) == call.r = r /\ call.fn \in fns
Ending == {"finalize", "terminate"}

(* Base: the types, and which requests may be mentioned where.  A request    *)
(* that does not exist has not started; one that exists was made by another. *)
Started == /\ \A r \in Requests : handler[r] = "handler" => pos[r] = NotStarted
           /\ \A r \in Requests : r \notin Live => handler[r] = "handler"
           /\ \A r \in upstream : pos[r] >= 0
           /\ Running("content") => pos[call.r] >= 0

Placed == \A s \in Subs : reader[s] # "none" =>
             \E p \in Requests : \E i \in 1..pos[p] : Script(p)[i] = s

Mentioned == /\ call.fn \notin {"loop", "posted", "event"} => call.r \in Live
             /\ active \in Live
             /\ Range(posted) \subseteq Live
             /\ \A p \in Requests : \A i \in DOMAIN postponed[p] :
                   postponed[p][i] \in Subs => /\ postponed[p][i] \in Live
                                               /\ postponed[p][i] \in Range(Script(p))

Base == TypeOK /\ Started /\ Placed /\ Mentioned

(* Before a request is terminated.  What the function that runs may rely on. *)
Calls ==
    LET r == call.r IN
    /\ Running("content") => /\ r \notin done
                             /\ \/ site.kind[r] = "page" /\ handler[r] = "phases"
                                \/ site.kind[r] = "proxy" /\ r \in upstream
    /\ call.fn \in {"flush", "written"} => r \notin done /\ handler[r] = "writer"
    /\ Running("flush") => r \notin aio
    /\ call.fn \in Ending => r \notin upstream /\ (r \notin done \/ again \/ call.rc = "ok")
    /\ Running("finalize") =>
          /\ call.rc # "done"
          /\ call.rc = "ok" => /\ handler[r] \in {"phases", "upstream", "empty", "finalizer"}
                               /\ r \notin done \/ handler[r] = "finalizer"
          /\ r = Main => Main \notin done /\ (call.rc = "ok" => Made(Main) \/ Buffered(Main))
    /\ Running("terminate") => r \notin done \/ again
    /\ call.fn \in {"connection", "close"} => Main \in done
    /\ call.fn \in {"loop", "event"} => posted = <<>>
    /\ handler[Main] = "handler" => Running("posted") /\ posted = <<Main>>

(* The handlers of a request say which of its events are still to come.      *)
Handlers ==
    /\ upstream \subseteq {r \in Live : handler[r] = "upstream" /\ site.kind[r] = "proxy"}
    /\ aio \subseteq {r \in Live : Buffered(r)}
    /\ \A r \in Requests :
       /\ handler[r] = "upstream" => /\ site.kind[r] = "proxy" /\ reader[r] = "broken"
                                     /\ r \in upstream \cup done \/ On(r, Ending)
       /\ (handler[r] = "phases" /\ site.kind[r] = "file") => On(r, Ending) /\ Buffered(r)
       /\ handler[r] = "writer" => reader[r] = "test"
       /\ (handler[r] = "finalizer" /\ r = active) => r \in Range(posted) \/ On(r, Ending)
       /\ handler[r] # "terminate"
       /\ reader[r] = "broken" => handler[r] \in {"upstream", "finalizer"}
                                  \/ (r = Main /\ call.fn \in {"connection", "close"})
       /\ reader[r] = "linger" => r = Main /\ Main \in done
    /\ handler[Main] = "finalizer" => Running("terminate")
    /\ handler[Main] \in {"writer", "empty"} => Made(Main) \/ Buffered(Main)

(* A request that is done has nothing left, and the main one is the last.    *)
Finished ==
    /\ \A r \in done : /\ r \notin upstream \cup aio /\ postponed[r] = <<>> /\ ~Buffered(r)
                       /\ handler[r] \in {"phases", "upstream", "empty", "finalizer"}
                       /\ r = active => r = Main
    /\ Main \in done => /\ active = Main /\ handler[Main] = "empty"
                        /\ aio = {} /\ Unfinished = {}
                        /\ call.fn \in {"connection", "close"} \/ reader[Main] = "linger"

(* The client: what is found out about it ends the request at once. *)
Broken ==
    /\ client.error => \/ Running("finalize") /\ call.rc \in {"error", "closed"}
                       \/ Running("terminate")
    /\ client.timedout =>
          \/ /\ Running("event")
             /\ handler[active] = "writer" \/ active \in upstream
          \/ Running("finalize") /\ call.rc \in {"error", "timeout"}
          \/ Running("terminate")
    /\ (call.r \in aio /\ ((Running("finalize") /\ call.rc # "ok") \/ Running("terminate")))
       => /\ call.r = active
          /\ client.error \/ (client.timedout /\ posted = <<>>)
    /\ Running("terminate") /\ call.r \in aio => handler[call.r] = "finalizer"

(* The tree.  path leads from the main request to the one that may send; the *)
(* unfinished requests off it wait in the lists of their parents, and those  *)
(* on it stand first in theirs.                                              *)
Lead(path) ==
    /\ path \subseteq Undone \cup {Main} /\ Main \in path /\ active \in path
    /\ \A s \in path \ {Main} : Parent(s) \in path \ {active}
    /\ \A s, t \in path \ {Main} : Parent(s) = Parent(t) => s = t
    /\ \A p \in path \ {active} : \E s \in path \ {Main} : Parent(s) = p
    /\ \A s \in Unfinished \ path : s \in Range(postponed[Parent(s)])
    /\ \A p \in Requests : \A i \in DOMAIN postponed[p] :
          postponed[p][i] \in path \ {Main} => i = 1

(* A list holds no request that is done, and none twice.                     *)
Lists ==
    \A p \in Requests :
       /\ \A i \in DOMAIN postponed[p] : postponed[p][i] \in Subs => postponed[p][i] \notin done
       /\ \A i, j \in DOMAIN postponed[p] :
             (postponed[p][i] \in Subs /\ postponed[p][i] = postponed[p][j]) => i = j

(* After the last buffer of the main request no subrequest comes in its list. *)
LastData == (Main \notin done /\ pos[Main] >= 1 /\ Script(Main)[pos[Main]] = Data) =>
               /\ postponed[Main] # <<>> => postponed[Main][Len(postponed[Main])] \notin Subs
               /\ active # Main => postponed[Main] # <<>>

(* A parent outlives its subrequests, and nobody is an ancestor of itself.   *)
Ancestry == /\ \A s \in Unfinished : Parent(s) \notin done
            /\ \A Z \in SUBSET (Live \cap Subs) : Z # {} => \E s \in Z : Parent(s) \notin Z

Tree == (\E path \in SUBSET Requests : Lead(path)) /\ Lists /\ LastData /\ Ancestry

(* The count before a termination: one for the main request, one for each    *)
(* subrequest that is not done.                                              *)
Counted == count = 1 + Cardinality(Unfinished) /\ (alert => again)

(* After a termination.  Nothing is left but to close the main request ...   *)
Reaped == /\ handler[Main] = "terminate" /\ aio = {} /\ upstream = {}
          /\ \/ call = Return /\ posted = <<Main>>
             \/ call = Call("close", Main, "ok") /\ count = 1

(* ... or a file is being read, or its handler is to run, for the request    *)
(* that may send.  What may still take from the count, upstreams and         *)
(* subrequests that have not started, is within it.                          *)
Unstarted == {s \in Live \cap Subs : handler[s] = "handler"}

Shares == /\ count >= 1 + Cardinality(upstream \cup Unstarted)
          /\ count <= 1 + Cardinality(Live \cap Subs)
          /\ upstream \cap Unstarted = {}

Waiting ==
    LET a == active
        r == call.r
    IN
    /\ site.kind[a] = "file" /\ a \notin upstream /\ Main \notin upstream
    /\ handler[a] \in {"writer", "finalizer"} /\ reader[a] \notin {"broken", "linger"}
    /\ handler[Main] \notin {"handler", "terminate"}
    /\ call.fn \notin {"connection", "close"}
    /\ Running("finalize") => call.rc # "done"
    /\ call.fn \in {"content", "flush", "written"} => r # a
    /\ call.fn \in {"loop", "event"} => posted = <<>>
    /\ Shares
    /\ \/ /\ client.error
          /\ a \in aio \/ Running("event") \/ On(a, Ending)
          /\ handler[a] = "finalizer" \/ On(a, {"finalize"}) \/ (On(a, {"terminate"}) /\ aio = {})
       \/ /\ ~client.error /\ client.timedout /\ Buffered(a)
          /\ posted = <<>> /\ upstream = {} /\ aio \subseteq {a}
          /\ call.fn \in {"loop", "posted", "event"} \/ On(a, Ending)

(* At any time *)
Sane == /\ \A r \in Requests : reader[r] = "broken" => site.kind[r] = "proxy"
        /\ \A s \in Subs : handler[s] # "terminate"
        /\ freed => call.fn \in {"loop", "posted"}
        /\ astray => torn

Untorn == Calls /\ Handlers /\ Finished /\ Broken /\ Tree /\ Counted
Torn == (Reaped \/ Waiting) /\ (alert => again)

(* The pool is freed when nothing can run for it any more.                   *)
Freed == aio = {} /\ upstream = {} /\ (torn \/ Unfinished = {}) /\ (alert => again)

(* The inductive invariant. *)
IInv == /\ Base /\ Sane
        /\ (~torn /\ ~freed) => Untorn
        /\ (torn /\ ~astray /\ ~freed) => Torn
        /\ (freed /\ ~astray) => Freed

-----------------------------------------------------------------------------
(* Responses, requests and their parents *)

(* What the assumption says of the responses of this run. *)
LEMMA SiteType ==
    ASSUME site \in Sites
    PROVE  /\ \A r \in Requests : /\ Script(r) \in Seq(Subs \cup {Data})
                                  /\ site.kind[r] \in Kinds
                                  /\ site.kind[r] = "file" => /\ Script(r) # <<>>
                                                              /\ Script(r) \in Seq({Data})
           /\ \A r, p \in Requests : \A i \in DOMAIN Script(r), j \in DOMAIN Script(p) :
                 (Script(r)[i] = Script(p)[j] /\ Script(r)[i] \in Subs) => r = p /\ i = j
           /\ Script(Main) # <<>> /\ Script(Main)[Len(Script(Main))] = Data
  BY RequestAssumption DEF Script, OneOfEach, Kinds

(* The main request, the subrequests and the parts of a body are different things. *)
LEMMA Names == /\ Main \in Requests /\ Main \notin Subs /\ Data \notin Requests
               /\ Subs \subseteq Requests /\ Requests = Subs \cup {Main}
               /\ NoRequest \notin Requests
  BY RequestAssumption DEF Requests

(* A subrequest has the parent in whose response it stands. *)
LEMMA ParentIs ==
    ASSUME site \in Sites, NEW p \in Requests, NEW i \in DOMAIN Script(p), Script(p)[i] \in Subs
    PROVE  Parent(Script(p)[i]) = p
<1> DEFINE s == Script(p)[i]
<1>1. s \in Range(Script(p))
  BY DEF Range
<1>2. Parent(s) \in Requests /\ s \in Range(Script(Parent(s)))
  BY <1>1 DEF Parent
<1>3. PICK j \in DOMAIN Script(Parent(s)) : Script(Parent(s))[j] = s
  BY <1>2 DEF Range
<1> QED BY <1>2, <1>3, SiteType

(* The requests that exist. *)
LEMMA LiveIs == /\ Live \subseteq Requests /\ Main \in Live
                /\ \A s \in Subs : s \in Live <=> reader[s] # "none"
  BY Names DEF Live

(* The parent of a request that exists has made it. *)
LEMMA ParentLives ==
    ASSUME Base, NEW s \in Live \cap Subs
    PROVE  /\ Parent(s) \in Live /\ s \in Range(Script(Parent(s)))
           /\ pos[Parent(s)] >= 1
<1>1. PICK p \in Requests : \E i \in 1..pos[p] : Script(p)[i] = s
  BY LiveIs DEF Base, Placed
<1>2. PICK i \in 1..pos[p] : Script(p)[i] = s
  BY <1>1
<1>3. pos[p] \in Int /\ pos[p] <= Len(Script(p)) /\ Len(Script(p)) \in Nat
  BY SiteType DEF Base, TypeOK, NotStarted
<1>4. i \in DOMAIN Script(p) /\ pos[p] >= 1
  BY <1>2, <1>3, SiteType DEF Base, TypeOK
<1>5. Parent(s) = p
  BY <1>2, <1>4, ParentIs DEF Base, TypeOK
<1>6. p \in Live
  BY <1>3, <1>4 DEF Base, Started, NotStarted
<1> QED BY <1>2, <1>4, <1>5, <1>6 DEF Range

-----------------------------------------------------------------------------
(* Base is kept *)

(* A step that leaves the scripts and lists alone. *)
LEMMA BaseKept ==
    ASSUME Base, site' = site, postponed' = postponed, pos' = pos,
           call' \in CallTypes,
           call'.fn \notin Fn => call'.r \in Live,
           call'.fn = "content" => pos[call'.r] >= 0,
           handler' \in [Requests -> HandlerTypes],
           \A r \in Requests : handler'[r] # handler[r] => handler'[r] # "handler" /\ r \in Live,
           reader' \in [Requests -> ReaderTypes],
           \A s \in Subs : reader'[s] # reader[s] => s \in Live /\ reader'[s] # "none",
           upstream' \subseteq upstream, done' \subseteq Requests, aio' \subseteq Requests,
           active' \in Live, posted' \in Seq(Requests), Range(posted') \subseteq Live,
           count' \in 0..255,
           client' \in ClientType,
           out' = out,
           {freed', torn', astray', again', alert'} \subseteq BOOLEAN
    PROVE  Base' /\ Live' = Live
<1> USE DEF CallTypes, ClientType, HandlerTypes, ReaderTypes
<1>1. Live' = Live
  BY DEF Live
<1>2. TypeOK'
  BY LiveIs DEF Base, TypeOK, Script
<1>3. Started'
  BY <1>1, LiveIs DEF Base, TypeOK, Started, Running
<1>4. Placed'
  <2>1. \A s \in Subs : reader'[s] # "none" => reader[s] # "none"
    BY LiveIs
  <2> QED BY <2>1 DEF Base, Placed, Script
<1>5. Mentioned'
  BY <1>1 DEF Base, TypeOK, Mentioned, Script, Fn
<1> QED BY <1>1, <1>2, <1>3, <1>4, <1>5 DEF Base

(* What a handler leaves alone. *)
Posting == site' = site /\ posted' \in Seq(Requests) /\ Range(posted') \subseteq Live

(* A request starts in its first handler. *)
LEMMA BaseStarts ==
    ASSUME Base, NEW r \in Live, Starts(r), Posting
    PROVE  Base' /\ Live' = Live
<1>n. r \in Requests /\ pos[r] = NotStarted
  BY LiveIs DEF Base, Started, Starts
<1>t. TypeOK /\ Started
  BY DEF Base
<1>0. \A s \in Subs : reader'[s] # "none" <=> reader[s] # "none"
  BY <1>n, <1>t, LiveIs, Names, SMTT(60) DEF Starts, TypeOK
<1>1. Live' = Live
  BY <1>0 DEF Live
<1>2. TypeOK'
  <2>1. call' \in {Call("content", r, "ok"), Call("finalize", r, "ok"), Return}
    BY DEF Starts
  <2>5. call' \in CallTypes
    BY <1>n, <2>1 DEF Return, Fns, Call, CallTypes
  <2>6. upstream' \in SUBSET Requests /\ done' \in SUBSET Requests /\ aio' \in SUBSET Requests
    BY <1>n, <1>t DEF Starts, TypeOK, body
  <2>2. \A q \in Requests : pos'[q] \in NotStarted..Len(Script(q)')
    BY <1>n, <1>t, SiteType DEF Starts, TypeOK, Script, NotStarted, Posting
  <2>3. /\ handler' \in [Requests -> HandlerTypes]
        /\ reader' \in [Requests -> ReaderTypes]
    BY <1>n, <1>t DEF Starts, TypeOK, HandlerTypes, ReaderTypes
  <2>4. UNCHANGED <<site, postponed, active, count, client, out, freed, torn, astray, again, alert>>
    BY DEF Starts, Posting
  <2>7. pos' \in [Requests -> Int]
    BY <1>n, <1>t DEF Starts, TypeOK
  <2> QED BY <1>t, <2>2, <2>3, <2>4, <2>5, <2>6, <2>7, ZenonT(60) DEF Posting, TypeOK, CallTypes,
             HandlerTypes, ReaderTypes
<1>3. Started'
  <2>1. /\ \A q \in Requests : handler'[q] = "handler" => q # r /\ handler[q] = "handler"
        /\ \A q \in Requests : q # r => handler'[q] = handler[q] /\ pos'[q] = pos[q]
        /\ pos'[r] = 0 /\ upstream' \subseteq upstream \cup {r}
    BY <1>n, <1>t DEF Starts, TypeOK, body
  <2>2. call'.fn = "content" => call'.r = r
    BY DEF Starts, Call, Return
  <2>3. \A q \in Requests : handler'[q] = "handler" => pos'[q] = NotStarted
    BY <1>t, <2>1 DEF Started
  <2>4. \A q \in Requests : q \notin Live' => handler'[q] = "handler"
    BY <1>1, <1>n, <1>t, <2>1 DEF Started
  <2>5. \A q \in upstream' : pos'[q] >= 0
    <3>1. \A q \in upstream : q \in Requests
      BY <1>t DEF TypeOK
    <3>2. \A q \in upstream : pos[q] >= 0
      BY <1>t DEF Started
    <3> QED BY <2>1, <3>1, <3>2
  <2> QED BY <2>1, <2>2, <2>3, <2>4, <2>5 DEF Started, Running
<1>4. Placed'
  <2>1. \A s \in Subs : reader'[s] # "none" => reader[s] # "none"
    BY <1>0
  <2>2. \A p \in Requests : pos[p] >= 1 => pos'[p] = pos[p]
    BY <1>n, <1>t DEF Starts, TypeOK, NotStarted
  <2> SUFFICES ASSUME NEW s \in Subs, reader'[s] # "none"
               PROVE  \E p \in Requests : \E i \in 1..pos'[p] : Script(p)'[i] = s
    BY DEF Placed
  <2>3. PICK p \in Requests : \E i \in 1..pos[p] : Script(p)[i] = s
    BY <2>1 DEF Base, Placed
  <2>4. pos[p] >= 1
    BY <1>t, <2>3 DEF TypeOK
  <2>5. pos'[p] = pos[p] /\ Script(p)' = Script(p)
    BY <2>2, <2>4 DEF Script, Posting
  <2> QED BY <2>3, <2>5
<1>5. Mentioned'
  BY <1>1, <1>n DEF Base, Mentioned, Starts, Posting, body, Script, Call, Return
<1> QED BY <1>1, <1>2, <1>3, <1>4, <1>5 DEF Base

(* Whatever handler of a request runs. *)
LEMMA BaseHandle ==
    ASSUME Base, NEW r \in Live, Handle(r), Posting
    PROVE  Base' /\ Live' = Live
<1> USE DEF CallTypes, ClientType, HandlerTypes, ReaderTypes
<1>n. r \in Requests /\ Main \in Requests /\ Main \in Live
  BY LiveIs, Names
<1>t. TypeOK
  BY DEF Base
<1>1. CASE Starts(r)
  BY <1>1, BaseStarts
<1>2. CASE Downstream(r)
  <2>1. call' \in {Call("content", r, "ok"), Call("finalize", r, "error"), Return}
    BY <1>2 DEF Downstream
  <2>2. call'.fn = "content" => call'.r = r /\ r \in upstream
    BY <1>2 DEF Downstream, Call, Return
  <2>3. /\ call' \in CallTypes
        /\ call'.fn \notin Fn => call'.r \in Live
    BY <1>n, <2>1 DEF Call, Return, Fns, Fn
  <2>4. call'.fn = "content" => pos[call'.r] >= 0
    BY <2>2 DEF Base, Started
  <2>5. upstream' \subseteq upstream
    BY <1>2 DEF Downstream
  <2> QED BY <1>2, <1>t, <2>3, <2>4, <2>5, BaseKept DEF Downstream, body, Posting, TypeOK, Base,
             Mentioned
<1>3. CASE Flushes(r)
  BY <1>3, <1>n, <1>t, BaseKept DEF Flushes, body, Posting, Call, Return, Fns, Fn, TypeOK, Base,
     Mentioned
<1>4. CASE Finalizer(r)
  BY <1>4, <1>n, <1>t, BaseKept DEF Finalizer, body, Posting, Call, Return, Fns, Fn, TypeOK,
     Base, Mentioned
<1>5. CASE TerminateHandler(r)
  <2>1. /\ call' \in CallTypes
        /\ call'.fn = "close" /\ call'.r = Main /\ count' \in 0..255
    BY <1>5, <1>n DEF TerminateHandler, Call, Fns
  <2> QED BY <1>5, <1>n, <1>t, <2>1, BaseKept DEF TerminateHandler, Posting, TypeOK, Base,
             Mentioned
<1>6. CASE Ignores(r)
  BY <1>6, <1>n, <1>t, BaseKept DEF Ignores, body, Posting, Call, Return, Fns, Fn, TypeOK, Base,
     Mentioned
<1>7. CASE PhasesAgain(r)
  BY <1>7, <1>n, <1>t, BaseKept DEF PhasesAgain, body, Posting, Call, Return, Fns, Fn, TypeOK,
     Base, Mentioned
<1> QED BY <1>1, <1>2, <1>3, <1>4, <1>5, <1>6, <1>7 DEF Handle

AnyPart == Requests \X (Nat \ {0})

-----------------------------------------------------------------------------
(* Sending, and what the postpone filter leaves in the lists *)

(* An item of a list is a subrequest or a part of a body. *)
LEMMA ItemsAre ==
    /\ Items = Subs \cup AnyPart
    /\ \A x \in AnyPart : x \notin Subs
  BY RequestAssumption DEF Items, AnyPart

(* What sending does: everything goes out, or the data before the first      *)
(* subrequest, at f, to which the right to send goes.                        *)
SendsAll(r, list) == /\ \A i \in DOMAIN list : list[i] \notin Subs
                     /\ postponed' = [postponed EXCEPT ![r] = <<>>]
                     /\ out' = out \o list
                     /\ UNCHANGED <<active, posted>>

SendsUpTo(r, list, f) == /\ f \in DOMAIN list /\ list[f] \in Subs
                         /\ \A j \in DOMAIN list : j < f => list[j] \notin Subs
                         /\ postponed' = [postponed EXCEPT ![r] = SubSeq(list, f + 1, Len(list))]
                         /\ out' = out \o SubSeq(list, 1, f - 1)
                         /\ active' = list[f] /\ posted' = Append(posted, list[f])

(* The two outcomes of sending a list. *)
LEMMA SendsIs ==
    ASSUME NEW r \in Requests, NEW list \in Seq(Items), out \in Seq(AnyPart), Sends(r, list),
           client \in ClientType
    PROVE  /\ out' \in Seq(AnyPart)
           /\ client' \in ClientType
           /\ client'.error = client.error /\ client'.timedout = client.timedout
           /\ client'.gone = client.gone
           /\ SendsAll(r, list) \/ \E f \in DOMAIN list : SendsUpTo(r, list, f)
<1> USE DEF CallTypes, ClientType, HandlerTypes, ReaderTypes
<1> DEFINE subs == {i \in DOMAIN list : list[i] \in Subs}
           first == CHOOSE i \in subs \cup {Len(list) + 1} : \A j \in subs : i <= j
           data == SubSeq(list, 1, first - 1)
<1>n. /\ Len(list) \in Nat /\ DOMAIN list = 1..Len(list)
      /\ \A i \in 1..Len(list) : list[i] \in Items
  OBVIOUS
<1>s. subs \in SUBSET Nat /\ \A i \in subs : i \in 1..Len(list)
  BY <1>n
<1>f. first \in subs \cup {Len(list) + 1} /\ \A j \in subs : first <= j
  <2>1. \E i \in subs \cup {Len(list) + 1} : \A j \in subs : i <= j
    <3>1. CASE subs = {}
      BY <3>1
    <3>2. CASE subs # {}
      <4> HIDE DEF subs
      <4> QED BY <3>2, <1>s, LeastNatural
    <3> QED BY <3>1, <3>2
  <2> HIDE DEF subs
  <2> QED BY <2>1
<1>o. /\ out' = out \o data
      /\ postponed' = [postponed EXCEPT ![r] = SubSeq(list, first + 1, Len(list))]
      /\ IF subs = {} THEN UNCHANGED <<active, posted>>
         ELSE active' = list[first] /\ posted' = Append(posted, list[first])
      /\ \E b \in BOOLEAN : client' = [client EXCEPT !.buffered = b]
  BY DEF Sends, Posts
<1>1. first \in 1..Len(list) + 1 /\ \A i \in 1..first - 1 : list[i] \notin Subs
  <2>1. first \in 1..Len(list) + 1
    <3> HIDE DEF subs, first
    <3> QED BY <1>n, <1>s, <1>f
  <2>2. ASSUME NEW i \in 1..first - 1 PROVE list[i] \notin Subs
    <3>1. i \in 1..Len(list) /\ ~(first <= i)
      <4> HIDE DEF first
      <4> QED BY <1>n, <2>1, <2>2
    <3>2. i \notin subs
      <4> HIDE DEF first, subs
      <4> QED BY <1>f, <3>1
    <3> QED BY <1>n, <3>1, <3>2
  <2> QED BY <2>1, <2>2
<1> HIDE DEF first
<1>2. data \in Seq(AnyPart)
  <2>1. /\ data \in Seq(Items) /\ Len(data) = first - 1
        /\ \A i \in 1..first - 1 : data[i] = list[i]
    BY <1>n, <1>1, SubSeqProperties
  <2>2. \A i \in 1..Len(data) : data[i] \in AnyPart
    BY <1>n, <1>1, <2>1, ItemsAre
  <2> HIDE DEF data
  <2> QED BY <2>1, <2>2
<1>3. out' \in Seq(AnyPart)
  <2> HIDE DEF data
  <2> QED BY <1>o, <1>2
<1>4. /\ client' \in ClientType
      /\ client'.error = client.error /\ client'.timedout = client.timedout
      /\ client'.gone = client.gone
  BY <1>o
<1>5. CASE subs = {}
  <2>1. first = Len(list) + 1
    <3> HIDE DEF subs
    <3> QED BY <1>5, <1>f
  <2>2. SubSeq(list, first + 1, Len(list)) = <<>>
    BY <1>n, <2>1, SubSeqEmpty
  <2>3. \A i \in DOMAIN list : list[i] \notin Subs
    BY <1>5
  <2>5. data = list
    <3>1. data \in Seq(Items) /\ Len(data) = Len(list) /\ \A i \in 1..Len(list) : data[i] = list[i]
      BY <1>n, <2>1, SubSeqProperties
    <3> HIDE DEF data
    <3> QED BY <1>n, <3>1, SeqEqual
  <2>4. SendsAll(r, list)
    <3> HIDE DEF subs, data
    <3> QED BY <1>5, <1>o, <2>2, <2>3, <2>5 DEF SendsAll
  <2> QED BY <1>3, <1>4, <2>4
<1>6. CASE subs # {}
  <2>1. first \in subs
    <3> HIDE DEF subs
    <3>1. PICK j \in subs : TRUE
      BY <1>6
    <3> QED BY <1>f, <1>n, <1>s, <1>1, <3>1
  <2>2. first \in DOMAIN list /\ list[first] \in Subs
    BY <2>1
  <2>3. \A j \in DOMAIN list : j < first => list[j] \notin Subs
    BY <1>n, <1>1
  <2>4. SendsUpTo(r, list, first)
    <3> HIDE DEF subs
    <3> QED BY <1>6, <1>o, <2>2, <2>3 DEF SendsUpTo
  <2> QED BY <1>3, <1>4, <2>2, <2>4
<1> QED BY <1>5, <1>6

(* What the output filters do with a list: it waits, it is sent, or the      *)
(* client is found to be gone.                                               *)
Keeps(r, list) == /\ r # active
                  /\ postponed' = [postponed EXCEPT ![r] = list]
                  /\ UNCHANGED <<active, posted, client, out>>

Breaks(r, list) == /\ r = active
                   /\ postponed' = [postponed EXCEPT ![r] = list]
                   /\ UNCHANGED <<active, posted, out>>
                   /\ client' = [client EXCEPT !.error = TRUE]
                   /\ upstream' = upstream \ {r}
                   /\ call' = Call("finalize", r, "error")

GoesOn(r, list, next) ==
    /\ call' = next /\ upstream' = upstream
    /\ \/ Keeps(r, list)
       \/ /\ r = active
          /\ client'.error = client.error /\ client'.timedout = client.timedout
          /\ client'.gone = client.gone
          /\ SendsAll(r, list) \/ \E f \in DOMAIN list : SendsUpTo(r, list, f)

(* The outcomes of the output filters. *)
LEMMA OutputIs ==
    ASSUME TypeOK, NEW r \in Requests, NEW in \in Seq(AnyPart), NEW next, Output(r, in, next)
    PROVE  /\ postponed[r] \o in \in Seq(Items)
           /\ out' \in Seq(AnyPart) /\ client' \in ClientType
           /\ GoesOn(r, postponed[r] \o in, next) \/ Breaks(r, postponed[r] \o in)
<1> DEFINE list == postponed[r] \o in
<1>1. list \in Seq(Items)
  <2>1. postponed[r] \in Seq(Items) /\ in \in Seq(Items)
    BY ItemsAre DEF TypeOK
  <2> QED BY <2>1
<1>2. out \in Seq(AnyPart) /\ client \in ClientType
  BY DEF TypeOK, AnyPart, ClientType
<1>o. \/ /\ r # active
         /\ postponed' = [postponed EXCEPT ![r] = list]
         /\ call' = next
         /\ UNCHANGED <<upstream, active, posted, client, out>>
      \/ /\ r = active
         /\ \/ Sends(r, list) /\ call' = next /\ UNCHANGED upstream
            \/ SendFails(r, list)
  BY DEF Output, MaySend
<1> HIDE DEF list
<1>3. CASE r # active
  BY <1>1, <1>2, <1>3, <1>o DEF GoesOn, Keeps, list
<1>4. CASE Sends(r, list) /\ call' = next /\ UNCHANGED upstream /\ r = active
  BY <1>1, <1>2, <1>4, SendsIs DEF GoesOn, ClientType, list
<1>5. CASE SendFails(r, list) /\ r = active
  <2>1. client' \in ClientType
    BY <1>2, <1>5 DEF SendFails, ClientType
  <2> QED BY <1>1, <1>2, <1>5, <2>1 DEF SendFails, Breaks, list
<1> QED BY <1>3, <1>4, <1>5, <1>o

(* What it leaves in the lists was there before, or is data. *)
LEMMA WritesIs ==
    ASSUME TypeOK, NEW r \in Requests, NEW list \in Seq(Items), NEW next,
           GoesOn(r, list, next) \/ Breaks(r, list)
    PROVE  /\ postponed' \in [Requests -> Seq(Items)]
           /\ \A q \in Requests : q # r => postponed'[q] = postponed[q]
           /\ Range(postponed'[r]) \subseteq Range(list)
           /\ upstream' \subseteq upstream
           /\ call' \in {next, Call("finalize", r, "error")}
           /\ \/ active' = active /\ posted' = posted
              \/ /\ active' \in Subs /\ active' \in Range(list)
                 /\ posted' = Append(posted, active')
<1>1. ASSUME SendsAll(r, list) PROVE postponed' = [postponed EXCEPT ![r] = <<>>]
  BY <1>1 DEF SendsAll
<1>2. ASSUME NEW f \in DOMAIN list, SendsUpTo(r, list, f)
      PROVE  /\ postponed' = [postponed EXCEPT ![r] = SubSeq(list, f + 1, Len(list))]
             /\ active' \in Subs /\ active' \in Range(list) /\ posted' = Append(posted, active')
  BY <1>2 DEF SendsUpTo, Range
<1>3. \A f \in DOMAIN list : SubSeq(list, f + 1, Len(list)) \in Seq(Items)
                             /\ Range(SubSeq(list, f + 1, Len(list))) \subseteq Range(list)
  <2> SUFFICES ASSUME NEW f \in DOMAIN list
               PROVE  /\ SubSeq(list, f + 1, Len(list)) \in Seq(Items)
                      /\ Range(SubSeq(list, f + 1, Len(list))) \subseteq Range(list)
    OBVIOUS
  <2>1. f \in 1..Len(list) /\ Len(list) \in Nat /\ DOMAIN list = 1..Len(list)
    OBVIOUS
  <2> DEFINE rest == SubSeq(list, f + 1, Len(list))
  <2>2. rest \in Seq(Items) /\ DOMAIN rest = 1..Len(rest)
    BY <2>1, SubSeqProperties
  <2>3. \A i \in 1..Len(rest) : f + i \in 1..Len(list) /\ rest[i] = list[f + i]
    BY <2>1, SubSeqProperties
  <2>4. \A i \in DOMAIN rest : rest[i] \in Range(list)
    <3> HIDE DEF rest
    <3> QED BY <2>1, <2>2, <2>3 DEF Range
  <2> HIDE DEF rest
  <2>5. Range(rest) \subseteq Range(list)
    BY <2>4 DEF Range
  <2> QED BY <2>2, <2>5 DEF rest
<1>4. /\ postponed' \in [Requests -> Seq(Items)]
      /\ (\A q \in Requests : q # r => postponed'[q] = postponed[q])
      /\ Range(postponed'[r]) \subseteq Range(list)
  <2>1. PICK rest \in Seq(Items) : postponed' = [postponed EXCEPT ![r] = rest] /\ Range(rest) \subseteq Range(list)
    <3>1. Range(<<>>) \subseteq Range(list) /\ <<>> \in Seq(Items)
      BY DEF Range
    <3>2. CASE SendsAll(r, list)
      BY <1>1, <3>1, <3>2
    <3>3. CASE \E f \in DOMAIN list : SendsUpTo(r, list, f)
      BY <1>2, <1>3, <3>3
    <3>4. CASE Keeps(r, list) \/ Breaks(r, list)
      BY <3>4 DEF Keeps, Breaks
    <3> QED BY <3>2, <3>3, <3>4 DEF GoesOn
  <2> QED BY <2>1 DEF TypeOK
<1>5. upstream' \subseteq upstream /\ call' \in {next, Call("finalize", r, "error")}
  BY DEF GoesOn, Breaks
<1>6. \/ active' = active /\ posted' = posted
      \/ /\ active' \in Subs /\ active' \in Range(list)
         /\ posted' = Append(posted, active')
  BY <1>2 DEF GoesOn, Keeps, Breaks, SendsAll
<1> QED BY <1>4, <1>5, <1>6

(* What Append adds. *)
LEMMA RangeAppend ==
    ASSUME NEW S, NEW s \in Seq(S), NEW x \in S
    PROVE  /\ Append(s, x) \in Seq(S) /\ Len(Append(s, x)) = Len(s) + 1
           /\ Range(Append(s, x)) = Range(s) \cup {x}
<1>1. /\ Append(s, x) \in Seq(S) /\ Len(Append(s, x)) = Len(s) + 1
      /\ DOMAIN Append(s, x) = 1..Len(s) + 1
      /\ \A i \in 1..Len(s) : Append(s, x)[i] = s[i]
      /\ Append(s, x)[Len(s) + 1] = x
      /\ Len(s) \in Nat /\ DOMAIN s = 1..Len(s)
  BY AppendProperties
<1> QED BY <1>1 DEF Range

(* What a concatenation has. *)
LEMMA RangeConcat ==
    ASSUME NEW S, NEW s \in Seq(S), NEW t \in Seq(S)
    PROVE  Range(s \o t) = Range(s) \cup Range(t)
<1>1. /\ DOMAIN (s \o t) = 1..Len(s) + Len(t) /\ s \o t \in Seq(S)
      /\ \A i \in 1..Len(s) : (s \o t)[i] = s[i]
      /\ \A i \in 1..Len(t) : (s \o t)[Len(s) + i] = t[i]
      /\ Len(s) \in Nat /\ DOMAIN s = 1..Len(s)
      /\ Len(t) \in Nat /\ DOMAIN t = 1..Len(t)
      /\ \A i \in 1..Len(s) + Len(t) : i \in 1..Len(s) \/ i - Len(s) \in 1..Len(t)
  BY ConcatProperties
<1>2. \A i \in DOMAIN t : t[i] \in Range(s \o t)
  <2> TAKE i \in DOMAIN t
  <2>1. Len(s) + i \in DOMAIN (s \o t) /\ (s \o t)[Len(s) + i] = t[i]
    BY <1>1
  <2> QED BY <2>1 DEF Range
<1>3. \A i \in DOMAIN s : s[i] \in Range(s \o t)
  <2> TAKE i \in DOMAIN s
  <2>1. i \in DOMAIN (s \o t) /\ (s \o t)[i] = s[i]
    BY <1>1
  <2> QED BY <2>1 DEF Range
<1>4. \A i \in DOMAIN (s \o t) : (s \o t)[i] \in Range(s) \cup Range(t)
  <2> SUFFICES ASSUME NEW i \in DOMAIN (s \o t) PROVE (s \o t)[i] \in Range(s) \cup Range(t)
    OBVIOUS
  <2>1. CASE i \in 1..Len(s)
    BY <1>1, <2>1 DEF Range
  <2>2. CASE i - Len(s) \in 1..Len(t)
    <3> DEFINE j == i - Len(s)
    <3>1. i = Len(s) + j
      BY <1>1
    <3>2. j \in 1..Len(t)
      BY <2>2
    <3> HIDE DEF j
    <3> QED BY <1>1, <3>1, <3>2 DEF Range
  <2> QED BY <1>1, <2>1, <2>2
<1> QED BY <1>2, <1>3, <1>4 DEF Range

-----------------------------------------------------------------------------
(* Base is kept, continued *)

(* A step that writes a part of a body. *)
LEMMA BaseWrites ==
    ASSUME Base, NEW r \in Live, NEW n \in pos[r]..Len(Script(r)), pos[r] >= 0 \/ n = pos[r],
           NEW in \in Seq(AnyPart),
           NEW next \in {Call("content", r, "ok"), Call("written", r, "ok"), Return},
           next.fn = "content" => pos[r] >= 0,
           Output(r, in, next), pos' = [pos EXCEPT ![r] = n], aio' \in SUBSET Requests,
           UNCHANGED <<site, handler, reader, done, count, freed, torn, astray, again, alert>>
    PROVE  Base' /\ Live' = Live
<1> DEFINE list == postponed[r] \o in
<1>n. r \in Requests
  BY LiveIs
<1>t. TypeOK /\ Started
  BY DEF Base
<1>o. /\ list \in Seq(Items) /\ out' \in Seq(AnyPart) /\ client' \in ClientType
      /\ GoesOn(r, list, next) \/ Breaks(r, list)
  BY <1>n, <1>t, OutputIs
<1>r. Range(list) = Range(postponed[r]) \cup Range(in)
  <2>1. postponed[r] \in Seq(Items) /\ in \in Seq(Items)
    BY <1>n, <1>t, ItemsAre DEF TypeOK
  <2> QED BY <2>1, RangeConcat
<1> HIDE DEF list
<1>w. /\ postponed' \in [Requests -> Seq(Items)]
      /\ \A q \in Requests : q # r => postponed'[q] = postponed[q]
      /\ Range(postponed'[r]) \subseteq Range(list)
      /\ upstream' \subseteq upstream
      /\ call' \in {next, Call("finalize", r, "error")}
      /\ \/ active' = active /\ posted' = posted
         \/ /\ active' \in Subs /\ active' \in Range(list)
            /\ posted' = Append(posted, active')
  BY <1>n, <1>t, <1>o, WritesIs
<1>1. Live' = Live
  BY DEF Live
<1>s. \A x \in Range(list) : x \in Subs => x \in Live /\ x \in Range(Script(r))
  <2>1. \A x \in Range(postponed[r]) : x \in Subs => x \in Live /\ x \in Range(Script(r))
    BY <1>n DEF Base, Mentioned, Range
  <2>2. \A x \in Range(in) : x \notin Subs
    <3>1. \A x \in Range(in) : x \in AnyPart
      BY DEF Range
    <3> QED BY <3>1, ItemsAre
  <2> QED BY <1>r, <2>1, <2>2
<1>a. active' \in Live /\ posted' \in Seq(Requests) /\ Range(posted') \subseteq Live
  <2>1. active \in Live /\ posted \in Seq(Requests) /\ Range(posted) \subseteq Live
    BY DEF Base, TypeOK, Mentioned
  <2>2. CASE active' = active /\ posted' = posted
    BY <2>1, <2>2
  <2>3. CASE active' \in Subs /\ active' \in Range(list) /\ posted' = Append(posted, active')
    <3>1. active' \in Live /\ active' \in Requests
      BY <1>s, <2>3, LiveIs
    <3> QED BY <2>1, <2>3, <3>1, RangeAppend
  <2> QED BY <1>w, <2>2, <2>3
<1>c. /\ call' \in CallTypes
      /\ call'.fn \notin Fn => call'.r = r
      /\ call'.fn = "content" => call'.r = r
  BY <1>n, <1>w DEF Call, Return, Fns, Fn, CallTypes
<1>p. /\ pos' \in [Requests -> Int] /\ pos'[r] = n
      /\ \A q \in Requests : q # r => pos'[q] = pos[q]
      /\ \A q \in Requests : pos'[q] >= pos[q]
      /\ \A q \in Requests : pos[q] \in Int /\ pos[q] >= NotStarted /\ pos[q] <= Len(Script(q))
      /\ \A q \in Requests : Len(Script(q)) \in Nat
  <2>1. \A q \in Requests : pos[q] \in Int /\ pos[q] >= NotStarted /\ pos[q] <= Len(Script(q))
    BY <1>t, SiteType DEF TypeOK, NotStarted
  <2>2. \A q \in Requests : Len(Script(q)) \in Nat
    BY <1>t, SiteType DEF TypeOK
  <2>3. n \in Int /\ n >= pos[r]
    BY <1>n, <2>1, <2>2
  <2>4. /\ pos' \in [Requests -> Int] /\ pos'[r] = n
        /\ \A q \in Requests : q # r => pos'[q] = pos[q]
    BY <1>n, <1>t, <2>3 DEF TypeOK
  <2>5. \A q \in Requests : pos'[q] >= pos[q]
    <3> TAKE q \in Requests
    <3>1. CASE q = r
      BY <2>1, <2>3, <2>4, <3>1
    <3>2. CASE q # r
      BY <2>1, <2>4, <3>2
    <3> QED BY <3>1, <3>2
  <2> QED BY <2>1, <2>2, <2>4, <2>5
<1>2. TypeOK'
  <2>1. \A q \in Requests : pos'[q] \in NotStarted..Len(Script(q)')
    <3> SUFFICES ASSUME NEW q \in Requests PROVE pos'[q] \in NotStarted..Len(Script(q))
      BY DEF Script
    <3>1. CASE q = r
      BY <1>p, <3>1 DEF NotStarted
    <3>2. CASE q # r
      BY <1>p, <3>2, <1>t DEF TypeOK
    <3> QED BY <3>1, <3>2
  <2>2. upstream' \in SUBSET Requests /\ done' \in SUBSET Requests /\ aio' \in SUBSET Requests
    BY <1>t, <1>w DEF TypeOK
  <2>3. active' \in Requests
    BY <1>a, LiveIs
  <2>4. out' \in Seq(Requests \X (Nat \ {0})) /\ client' \in ClientType
    BY <1>o DEF AnyPart, ClientType
  <2>5. pos' \in [Requests -> Int] /\ postponed' \in [Requests -> Seq(Items)]
    BY <1>p, <1>w
  <2>6. call' \in CallTypes /\ posted' \in Seq(Requests)
    BY <1>a, <1>c
  <2>7. site' \in Sites /\ count' \in 0..255
    BY <1>t DEF TypeOK
  <2>8. handler' \in [Requests -> HandlerTypes] /\ reader' \in [Requests -> ReaderTypes]
    BY <1>t DEF TypeOK, HandlerTypes, ReaderTypes
  <2>9. /\ freed' \in BOOLEAN /\ torn' \in BOOLEAN /\ astray' \in BOOLEAN /\ again' \in BOOLEAN
        /\ alert' \in BOOLEAN
    BY <1>t DEF TypeOK
  <2> QED BY <2>1, <2>2, <2>3, <2>4, <2>5, <2>6, <2>7, <2>8, <2>9 DEF TypeOK, CallTypes, ClientType,
             HandlerTypes, ReaderTypes
<1>3. Started'
  <2>1. \A q \in Requests : handler'[q] = "handler" => pos'[q] = NotStarted
    <3>1. handler[r] # "handler" \/ pos' = pos
      <4>1. CASE pos[r] >= 0
        BY <1>n, <1>t, <4>1 DEF Started, NotStarted
      <4>2. CASE n = pos[r]
        BY <1>n, <1>t, <4>2 DEF TypeOK
      <4> QED BY <4>1, <4>2
    <3> QED BY <1>p, <1>t, <3>1 DEF Started
  <2>2. \A q \in upstream' : pos'[q] >= 0
    <3> SUFFICES ASSUME NEW q \in upstream' PROVE pos'[q] >= 0
      OBVIOUS
    <3>1. q \in upstream /\ q \in Requests
      BY <1>w, <1>t DEF TypeOK
    <3>2. pos[q] >= 0 /\ pos[q] \in Int /\ pos'[q] >= pos[q] /\ pos'[q] \in Int
      BY <1>p, <1>t, <3>1 DEF Started
    <3> QED BY <3>2
  <2>3. call'.fn = "content" => pos'[call'.r] >= 0
    <3>1. pos'[r] >= pos[r] /\ pos[r] \in Int /\ pos'[r] \in Int
      BY <1>n, <1>p
    <3>2. call'.fn = "content" => next.fn = "content"
      BY <1>w DEF Call
    <3> QED BY <1>c, <3>1, <3>2
  <2> QED BY <1>1, <1>t, <2>1, <2>2, <2>3 DEF Started, Running
<1>4. Placed'
  <2> SUFFICES ASSUME NEW s \in Subs, reader[s] # "none"
               PROVE  \E p \in Requests : \E i \in 1..pos'[p] : Script(p)[i] = s
    BY DEF Placed, Script
  <2>1. PICK p \in Requests : \E i \in 1..pos[p] : Script(p)[i] = s
    BY DEF Base, Placed
  <2>2. PICK i \in 1..pos[p] : Script(p)[i] = s
    BY <2>1
  <2>3. i \in 1..pos'[p]
    BY <1>p, <2>2
  <2> QED BY <2>2, <2>3
<1>5. Mentioned'
  <2>1. ASSUME NEW p \in Requests, NEW i \in DOMAIN postponed'[p], postponed'[p][i] \in Subs
        PROVE  postponed'[p][i] \in Live /\ postponed'[p][i] \in Range(Script(p))
    <3>1. CASE p = r
      <4>1. postponed'[p][i] \in Range(list)
        BY <1>w, <2>1, <3>1 DEF Range
      <4> QED BY <1>s, <2>1, <3>1, <4>1
    <3>2. CASE p # r
      BY <1>w, <2>1, <3>2 DEF Base, Mentioned
    <3> QED BY <3>1, <3>2
  <2> QED BY <1>1, <1>a, <1>c, <2>1 DEF Mentioned, Script, Fn
<1> QED BY <1>1, <1>2, <1>3, <1>4, <1>5 DEF Base

(* ngx_http_subrequest() makes a request that was not there. *)
LEMMA BaseSubrequest ==
    ASSUME Base, NEW r \in Requests, Subrequest(r)
    PROVE  /\ Base'
           /\ Script(r)[pos[r] + 1] \in Subs
           /\ Live' = Live \cup {Script(r)[pos[r] + 1]}
<1> USE DEF CallTypes, ClientType, HandlerTypes, ReaderTypes
<1> DEFINE s == Script(r)[pos[r] + 1]
<1>t. TypeOK /\ Started
  BY DEF Base
<1>n. /\ r \in Live /\ s \in Subs /\ s \in Requests /\ s # Main
      /\ pos[r] >= 0 /\ pos[r] \in Int /\ pos[r] + 1 \in 1..Len(Script(r))
      /\ Len(Script(r)) \in Nat
      /\ pos[r] + 1 \in DOMAIN Script(r)
  <2>1. r \in Live /\ pos[r] >= 0
    BY <1>t DEF Subrequest, Running, Base, Mentioned, Started
  <2>2. s \in Subs /\ pos[r] # Len(Script(r))
    BY DEF Subrequest, Made
  <2>3. /\ pos[r] \in Int /\ pos[r] <= Len(Script(r)) /\ Len(Script(r)) \in Nat
        /\ DOMAIN Script(r) = 1..Len(Script(r))
    BY <1>t, SiteType DEF TypeOK, NotStarted
  <2> QED BY <2>1, <2>2, <2>3, Names
<1>p. s \in Range(Script(r))
  BY <1>n DEF Range
<1>c. call' \in {Call("content", r, "ok"), Return}
  BY DEF Subrequest, Proceed
<1>a. /\ pos' = [pos EXCEPT ![r] = pos[r] + 1] /\ reader' = [reader EXCEPT ![s] = "empty"]
      /\ active' \in {s, active}
      /\ postponed' = [postponed EXCEPT ![r] = Append(postponed[r], s)]
      /\ count' = Referred(count) /\ posted' = Append(posted, s)
      /\ UNCHANGED <<site, handler, upstream, done, aio, client, out, freed, torn, astray, again, alert>>
  BY DEF Subrequest, Posts
<1> HIDE DEF s
<1>1. Live' = Live \cup {s}
  <2>1. \A q \in Subs : reader'[q] # "none" <=> (reader[q] # "none" \/ q = s)
    BY <1>a, <1>n, <1>t, Names DEF TypeOK
  <2> QED BY <2>1, <1>n DEF Live
<1>b. /\ Append(postponed[r], s) \in Seq(Items)
      /\ Range(Append(postponed[r], s)) = Range(postponed[r]) \cup {s}
      /\ posted' \in Seq(Requests) /\ Range(posted') = Range(posted) \cup {s}
  <2>1. postponed[r] \in Seq(Items) /\ s \in Items
    BY <1>n, <1>t, ItemsAre, LiveIs DEF TypeOK
  <2>2. posted \in Seq(Requests)
    BY <1>t DEF TypeOK
  <2>3. /\ Append(postponed[r], s) \in Seq(Items)
        /\ Range(Append(postponed[r], s)) = Range(postponed[r]) \cup {s}
    BY <2>1, RangeAppend
  <2>4. Append(posted, s) \in Seq(Requests) /\ Range(Append(posted, s)) = Range(posted) \cup {s}
    BY <2>2, <1>n, RangeAppend
  <2> QED BY <1>a, <2>3, <2>4
<1>e. /\ pos' \in [Requests -> Int] /\ pos'[r] = pos[r] + 1
      /\ \A q \in Requests : q # r => pos'[q] = pos[q]
  BY <1>a, <1>n, <1>t DEF TypeOK
<1>2. TypeOK'
  <2>1. call' \in CallTypes
    BY <1>n, <1>c DEF Call, Return, Fns
  <2>2. \A q \in Requests : pos'[q] \in NotStarted..Len(Script(q)')
    <3> SUFFICES ASSUME NEW q \in Requests PROVE pos'[q] \in NotStarted..Len(Script(q))
      BY <1>a DEF Script
    <3>1. CASE q = r
      BY <1>e, <1>n, <3>1 DEF NotStarted
    <3>2. CASE q # r
      BY <1>e, <3>2, <1>t DEF TypeOK
    <3> QED BY <3>1, <3>2
  <2>3. count' \in 0..255
    <3>1. count \in Int
      BY <1>t DEF TypeOK
    <3> QED BY <1>a, <3>1 DEF Referred, Byte
  <2>4. postponed' \in [Requests -> Seq(Items)] /\ active' \in Requests
    BY <1>a, <1>b, <1>t, <1>n DEF TypeOK
  <2>5. reader' \in [Requests -> ReaderTypes]
    BY <1>a, <1>t DEF TypeOK
  <2> QED BY <1>a, <1>b, <1>e, <1>t, <2>1, <2>2, <2>3, <2>4, <2>5 DEF TypeOK
<1>3. Started'
  <2>1. handler[r] # "handler"
    BY <1>n, <1>t, LiveIs DEF Started, NotStarted
  <2>2. \A q \in Requests : handler'[q] = "handler" => pos'[q] = NotStarted
    BY <1>a, <1>e, <1>t, <2>1 DEF Started
  <2>3. \A q \in upstream' : pos'[q] >= 0
    <3> SUFFICES ASSUME NEW q \in upstream PROVE pos'[q] >= 0
      BY <1>a
    <3>1. q \in Requests /\ pos[q] >= 0
      BY <1>t DEF TypeOK, Started
    <3>2. CASE q = r
      BY <1>e, <1>n, <3>2
    <3>3. CASE q # r
      BY <1>e, <3>1, <3>3
    <3> QED BY <3>2, <3>3
  <2>4. call'.fn = "content" => pos'[call'.r] >= 0
    BY <1>c, <1>e, <1>n DEF Call, Return
  <2> QED BY <1>1, <1>a, <1>t, <2>2, <2>3, <2>4 DEF Started, Running
<1>4. Placed'
  <2> SUFFICES ASSUME NEW q \in Subs, reader'[q] # "none"
               PROVE  \E p \in Requests : \E i \in 1..pos'[p] : Script(p)[i] = q
    BY <1>a DEF Placed, Script
  <2>1. CASE q = s
    <3>1. pos[r] + 1 \in 1..pos'[r] /\ Script(r)[pos[r] + 1] = q
      BY <1>e, <1>n, <2>1 DEF s
    <3> QED BY <3>1
  <2>2. CASE q # s
    <3>1. reader[q] # "none"
      BY <1>a, <1>t, <2>2, Names DEF TypeOK
    <3>2. PICK p \in Requests : \E i \in 1..pos[p] : Script(p)[i] = q
      BY <3>1 DEF Base, Placed
    <3>3. PICK i \in 1..pos[p] : Script(p)[i] = q
      BY <3>2
    <3>4. i \in 1..pos'[p]
      <4>1. pos[p] \in Int /\ (pos'[p] = pos[p] \/ pos'[p] = pos[p] + 1)
        BY <1>e, <1>t DEF TypeOK
      <4> QED BY <4>1, <3>3
    <3> QED BY <3>3, <3>4
  <2> QED BY <2>1, <2>2
<1>5. Mentioned'
  <2>1. ASSUME NEW p \in Requests, NEW i \in DOMAIN postponed'[p], postponed'[p][i] \in Subs
        PROVE  postponed'[p][i] \in Live' /\ postponed'[p][i] \in Range(Script(p))
    <3>1. CASE p = r
      <4>1. postponed'[p] = Append(postponed[r], s)
        BY <1>a, <1>t, <3>1 DEF TypeOK
      <4>2. postponed'[p][i] \in Range(Append(postponed[r], s))
        BY <2>1, <4>1 DEF Range
      <4>3. CASE postponed'[p][i] = s
        BY <1>1, <1>p, <3>1, <4>3
      <4>4. CASE postponed'[p][i] \in Range(postponed[r])
        BY <1>1, <2>1, <3>1, <4>4 DEF Base, Mentioned, Range
      <4> QED BY <1>b, <4>2, <4>3, <4>4
    <3>2. CASE p # r
      <4>1. postponed'[p] = postponed[p]
        BY <1>a, <1>t, <3>2 DEF TypeOK
      <4> QED BY <1>1, <2>1, <4>1 DEF Base, Mentioned
    <3> QED BY <3>1, <3>2
  <2>2. active' \in Live' /\ Range(posted') \subseteq Live'
    BY <1>1, <1>a, <1>b DEF Base, Mentioned
  <2>3. call'.fn \notin {"loop", "posted", "event"} => call'.r \in Live'
    BY <1>1, <1>c, <1>n DEF Call, Return
  <2> QED BY <1>a, <2>1, <2>2, <2>3 DEF Mentioned, Script
<1> QED BY <1>1, <1>2, <1>3, <1>4, <1>5, <1>n DEF Base, s

(* The simple steps: the call and a few flags change. *)
LEMMA BaseQuiet ==
    ASSUME Base,
           UNCHANGED <<site, handler, reader, postponed, pos, done, active, posted, out>>,
           call' \in CallTypes, call'.fn \notin Fn => call'.r \in Live,
           call'.fn = "content" => pos[call'.r] >= 0,
           upstream' \subseteq upstream, aio' \subseteq aio,
           count' \in 0..255, client' \in ClientType,
           {freed', torn', astray', again', alert'} \subseteq BOOLEAN
    PROVE  Base' /\ Live' = Live
<1>1. /\ handler \in [Requests -> HandlerTypes]
      /\ reader \in [Requests -> ReaderTypes]
      /\ done \subseteq Requests /\ aio \subseteq Requests /\ active \in Live
      /\ posted \in Seq(Requests) /\ Range(posted) \subseteq Live
  BY DEF Base, TypeOK, Mentioned, HandlerTypes, ReaderTypes
<1> QED BY <1>1, BaseKept DEF CallTypes, ClientType

(* What Base says of the variables that most steps use. *)
LEMMA BaseTyped ==
    ASSUME Base
    PROVE  /\ active \in Live /\ count \in 0..255 /\ client \in ClientType
           /\ freed \in BOOLEAN /\ torn \in BOOLEAN /\ astray \in BOOLEAN
           /\ again \in BOOLEAN /\ alert \in BOOLEAN
           /\ posted \in Seq(Requests) /\ Range(posted) \subseteq Live
           /\ done \subseteq Requests /\ aio \subseteq Requests /\ upstream \subseteq Requests
           /\ upstream \subseteq Live
           /\ call \in CallTypes /\ (call.fn \notin Fn => call.r \in Live)
<1> USE DEF CallTypes, ClientType, HandlerTypes, ReaderTypes
<1>1. \A r \in upstream : r \in Live
  <2> SUFFICES ASSUME NEW r \in upstream PROVE r \in Live
    OBVIOUS
  <2>1. r \in Requests /\ pos[r] >= 0
    BY DEF Base, TypeOK, Started
  <2>2. pos[r] # NotStarted
    BY <2>1 DEF NotStarted
  <2> QED BY <2>1, <2>2 DEF Base, Started
<1> QED BY <1>1 DEF Base, TypeOK, Mentioned, CallTypes, ClientType, Fn

(* The parts of a call. *)
LEMMA CallIs ==
    ASSUME NEW fn \in Fns, NEW r \in Live, NEW rc \in {"ok", "done", "error", "timeout", "closed"}
    PROVE  /\ Call(fn, r, rc) \in CallTypes
           /\ Call(fn, r, rc).fn = fn /\ Call(fn, r, rc).r = r /\ Call(fn, r, rc).rc = rc
  BY LiveIs DEF Call, CallTypes

(* The two ways back to the loop. *)
LEMMA ReturnIs ==
    /\ Return \in CallTypes /\ Return.fn = "posted" /\ Return.rc = "ok"
    /\ Loop \in CallTypes /\ Loop.fn = "loop" /\ Loop.rc = "ok"
    /\ Return.r = NoRequest /\ Loop.r = NoRequest
  BY DEF Return, Loop, Call, CallTypes, Fns

(* The field of the count has eight bits. *)
LEMMA ByteIs ==
    ASSUME NEW n \in Int
    PROVE  Byte(n) \in 0..255 /\ (n \in 0..255 => Byte(n) = n)
  BY DEF Byte

(* The steps that change the call, and little else. *)
Simple == \/ Idle \/ Close \/ Events
          \/ \E r \in Requests : EndContent(r) \/ FinalizeDone(r)

(* Base is kept by the simple steps. *)
LEMMA BaseSimple ==
    ASSUME Base, Simple
    PROVE  Base' /\ Live' = Live
<1> USE DEF Alerts
<1>b. /\ active \in Live /\ count \in 0..255 /\ client \in ClientType
      /\ freed \in BOOLEAN /\ torn \in BOOLEAN /\ astray \in BOOLEAN
      /\ again \in BOOLEAN /\ alert \in BOOLEAN
      /\ posted \in Seq(Requests) /\ Range(posted) \subseteq Live
      /\ aio \subseteq Requests /\ upstream \subseteq Requests
      /\ upstream \subseteq Live /\ Main \in Live
      /\ call \in CallTypes /\ (call.fn \notin Fn => call.r \in Live)
  BY BaseTyped, LiveIs
<1>f. {"posted", "content", "finalize", "terminate", "connection", "close", "event"} \subseteq Fns
  BY DEF Fns
<1>1. CASE Idle
  BY <1>1, <1>b, BaseQuiet, ReturnIs DEF Idle, body, Fn
<1>2. CASE Close
  <2>1. count' \in 0..255 /\ freed' \in BOOLEAN /\ alert' \in BOOLEAN
    <3>1. count - 1 \in Int
      BY <1>b
    <3>2. Byte(count - 1) \in 0..255
      BY <3>1, ByteIs
    <3> QED BY <1>2, <1>b, <3>2 DEF Close
  <2> QED BY <1>2, <1>b, <2>1, BaseQuiet, ReturnIs DEF Close, Fn
<1>3. CASE Writable
  <2>1. client' \in ClientType
    BY <1>3, <1>b DEF Writable, ClientType
  <2>2. call' \in CallTypes /\ call'.fn = "event"
    BY <1>3, <1>b, <1>f, CallIs DEF Writable
  <2> QED BY <1>3, <1>b, <2>1, <2>2, BaseQuiet DEF Writable, Fn
<1>4. CASE SendTimeout
  <2>1. client' \in ClientType
    BY <1>4, <1>b DEF SendTimeout, ClientType
  <2>2. call' \in CallTypes /\ call'.fn = "event"
    BY <1>4, <1>b, <1>f, CallIs DEF SendTimeout
  <2> QED BY <1>4, <1>b, <2>1, <2>2, BaseQuiet DEF SendTimeout, Fn
<1>5. CASE Lingered
  <2>2. call' \in CallTypes /\ call'.fn = "close" /\ call'.r = Main
    BY <1>5, <1>b, <1>f, CallIs DEF Lingered
  <2> QED BY <1>5, <1>b, <2>2, BaseQuiet DEF Lingered, body
<1>6. ASSUME NEW r \in Requests, UpstreamEvent(r) PROVE Base' /\ Live' = Live
  <2>1. r \in Live /\ pos[r] >= 0
    BY <1>6, <1>b DEF UpstreamEvent, Base, Started
  <2>2. call' \in CallTypes /\ call'.fn = "content" /\ call'.r = r
    BY <1>6, <1>f, <2>1, CallIs DEF UpstreamEvent
  <2> QED BY <1>6, <1>b, <2>1, <2>2, BaseQuiet DEF UpstreamEvent, body
<1>7. ASSUME NEW r \in Requests, PipeAborts(r) PROVE Base' /\ Live' = Live
  <2>1. r \in Live
    BY <1>7, <1>b DEF PipeAborts
  <2>2. call' \in CallTypes /\ call'.fn = "finalize" /\ call'.r = r
    BY <1>7, <1>f, <2>1, CallIs DEF PipeAborts
  <2> QED BY <1>7, <1>b, <2>1, <2>2, BaseQuiet DEF PipeAborts, body
<1>8. ASSUME NEW r \in Requests, AioDone(r) PROVE Base' /\ Live' = Live
  <2>2. call' \in CallTypes /\ call'.fn = "event"
    BY <1>8, <1>f DEF AioDone, Call, CallTypes
  <2>3. aio' \subseteq aio /\ upstream' = upstream
    BY <1>8 DEF AioDone
  <2> QED BY <1>8, <1>b, <2>2, <2>3, BaseQuiet DEF AioDone, Fn
<1>9. ASSUME NEW r \in Requests, EndContent(r) PROVE Base' /\ Live' = Live
  <2>1. r \in Live
    BY <1>9, <1>b DEF EndContent, Running, Fn
  <2>2. call' \in CallTypes /\ call'.fn = "finalize" /\ call'.r = r
    BY <1>9, <1>f, <2>1, CallIs DEF EndContent
  <2> QED BY <1>9, <1>b, <2>1, <2>2, BaseQuiet DEF EndContent, body
<1>10. ASSUME NEW r \in Requests, FinalizeDone(r) PROVE Base' /\ Live' = Live
  <2>1. r \in Live
    BY <1>10, <1>b DEF FinalizeDone, Finalizes, Running, Fn
  <2>2. call' \in CallTypes /\ call'.fn = "connection" /\ call'.r = r
    BY <1>10, <1>f, <2>1, CallIs DEF FinalizeDone
  <2> QED BY <1>10, <1>b, <2>1, <2>2, BaseQuiet DEF FinalizeDone, body
<1> QED BY <1>1, <1>2, <1>3, <1>4, <1>5, <1>6, <1>7, <1>8, <1>9, <1>10 DEF Simple, Events

(* Base is kept when a request is finalized, but for the main one. *)
LEMMA BaseFinalizes ==
    ASSUME Base, NEW r \in Requests,
           Written(r) \/ FinalizeError(r) \/ FinalizeLater(r) \/ FinalizeActive(r) \/ FinalizeEarly(r)
    PROVE  Base' /\ Live' = Live
<1> USE DEF CallTypes, ClientType, HandlerTypes, ReaderTypes
<1> USE DEF Alerts
<1>b. /\ active \in Live /\ count \in 0..255 /\ client \in ClientType
      /\ freed \in BOOLEAN /\ torn \in BOOLEAN /\ astray \in BOOLEAN
      /\ again \in BOOLEAN /\ alert \in BOOLEAN
      /\ posted \in Seq(Requests) /\ Range(posted) \subseteq Live
      /\ aio \subseteq Requests /\ done \subseteq Requests
  BY BaseTyped
<1>c. call \in CallTypes /\ (call.fn \notin Fn => call.r \in Live)
  BY BaseTyped
<1>r. r \in Live
  BY <1>c DEF Written, FinalizeError, FinalizeLater, FinalizeActive, FinalizeEarly, Finalizes,
              Running, Fn
<1>h. handler \in [Requests -> HandlerTypes] /\ reader \in [Requests -> ReaderTypes]
  BY DEF Base, TypeOK, HandlerTypes, ReaderTypes
<1>f. {"posted", "content", "finalize", "terminate", "connection", "close", "event"} \subseteq Fns
  BY DEF Fns
<1>1. CASE Written(r)
  <2>1. /\ call' \in CallTypes /\ call'.fn \in {"posted", "finalize"}
        /\ call'.fn \notin Fn => call'.r = r
    BY <1>1, <1>f, <1>r, CallIs, ReturnIs DEF Written, Fn
  <2>2. /\ handler' \in [Requests -> HandlerTypes]
        /\ \A q \in Requests : handler'[q] # handler[q] => q = r /\ handler'[q] # "handler"
    BY <1>1, <1>h DEF Written, HandlerTypes
  <2>3. call'.fn # "content"
    BY <2>1
  <2>4. UNCHANGED <<site, reader, upstream, body, posted, again, alert>>
    BY <1>1 DEF Written
  <2> QED BY <1>b, <1>r, <1>h, <2>1, <2>2, <2>3, <2>4, BaseKept
          DEF body, CallTypes, ClientType, HandlerTypes, ReaderTypes
<1>2. CASE FinalizeError(r)
  <2>1. call' \in CallTypes /\ call'.fn = "terminate" /\ call'.r = r
    BY <1>2, <1>f, <1>r, CallIs DEF FinalizeError
  <2>2. /\ handler' \in [Requests -> HandlerTypes]
        /\ \A q \in Requests : handler'[q] # handler[q] => q = r /\ handler'[q] # "handler"
    BY <1>2, <1>h DEF FinalizeError, HandlerTypes
  <2>4. UNCHANGED <<site, reader, upstream, body, posted, again, alert>>
    BY <1>2 DEF FinalizeError
  <2> QED BY <1>b, <1>r, <1>h, <2>1, <2>2, <2>4, BaseKept
          DEF body, CallTypes, ClientType, HandlerTypes, ReaderTypes
<1>3. CASE FinalizeLater(r)
  <2>2. /\ handler' \in [Requests -> HandlerTypes]
        /\ \A q \in Requests : handler'[q] # handler[q] => q = r /\ handler'[q] # "handler"
    BY <1>3, <1>h DEF FinalizeLater, HandlerTypes
  <2>3. /\ reader' \in [Requests -> ReaderTypes]
        /\ \A q \in Requests : reader'[q] # reader[q] => q = r /\ reader'[q] # "none"
    BY <1>3, <1>h DEF FinalizeLater, ReaderTypes
  <2>4. UNCHANGED <<site, upstream, body, posted, again, alert>> /\ call' = Return
    BY <1>3 DEF FinalizeLater
  <2>5. \A s \in Subs : reader'[s] # reader[s] => s \in Live /\ reader'[s] # "none"
    BY <2>3, <1>r, Names
  <2> QED BY <1>b, <1>r, <2>2, <2>3, <2>4, <2>5, BaseKept, ReturnIs
          DEF body, CallTypes, ClientType, HandlerTypes, ReaderTypes, Fn
<1>4. CASE FinalizeEarly(r)
  <2>1. r \in Live \cap Subs
    BY <1>4, <1>r DEF FinalizeEarly
  <2>2. /\ handler' \in [Requests -> HandlerTypes]
        /\ \A q \in Requests : handler'[q] # handler[q] => q = r /\ handler'[q] # "handler"
    BY <1>4, <1>h DEF FinalizeEarly, HandlerTypes
  <2>3. Parent(r) \in Live /\ Parent(r) \in Requests
    BY <2>1, ParentLives, LiveIs
  <2>4. /\ UNCHANGED <<site, reader, upstream, body, again, alert>> /\ call' = Return
        /\ posted' = Append(posted, Parent(r))
    BY <1>4 DEF FinalizeEarly, Posts
  <2>5. posted' \in Seq(Requests) /\ Range(posted') \subseteq Live
    BY <1>b, <2>3, <2>4, RangeAppend
  <2> QED BY <1>b, <1>r, <1>h, <2>2, <2>4, <2>5, BaseKept, ReturnIs
          DEF body, CallTypes, ClientType, HandlerTypes, ReaderTypes, Fn
<1>5. CASE FinalizeActive(r)
  <2>1. r \in Live \cap Subs
    BY <1>5, <1>r DEF FinalizeActive
  <2> DEFINE p == Parent(r)
  <2>3. p \in Live /\ p \in Requests
    BY <2>1, ParentLives, LiveIs
  <2>4. /\ UNCHANGED <<site, handler, reader, pos, upstream, aio, client, out, freed, torn, astray, again>>
        /\ call' = Return /\ posted' = Append(posted, p) /\ active' = p
        /\ postponed' = [postponed EXCEPT ![p] = DropFirst(postponed[p], r)]
        /\ count' = Byte(count - 1) /\ alert' = (alert \/ (r \in done)) /\ done' = done \cup {r}
    BY <1>5 DEF FinalizeActive, Posts
  <2> HIDE DEF p
  <2>5. /\ posted' \in Seq(Requests) /\ Range(posted') \subseteq Live /\ count' \in 0..255
        /\ alert' \in BOOLEAN /\ done' \in SUBSET Requests
    <3>1. count - 1 \in Int
      BY <1>b
    <3>2. Byte(count - 1) \in 0..255
      BY <3>1, ByteIs
    <3>3. /\ Append(posted, p) \in Seq(Requests)
          /\ Range(Append(posted, p)) = Range(posted) \cup {p}
      BY <1>b, <2>3, RangeAppend
    <3>4. done \cup {r} \in SUBSET Requests
      BY <1>b
    <3> QED BY <1>b, <2>3, <2>4, <3>2, <3>3, <3>4
  <2>t. TypeOK /\ Started
    BY DEF Base
  <2>6. postponed[p] \in Seq(Items)
    BY <2>t, <2>3 DEF TypeOK
  <2>7. /\ DropFirst(postponed[p], r) \in Seq(Items)
        /\ Range(DropFirst(postponed[p], r)) \subseteq Range(postponed[p])
    <3>1. CASE postponed[p] # <<>> /\ Head(postponed[p]) = r
      <4>1. DropFirst(postponed[p], r) = Tail(postponed[p])
        BY <3>1 DEF DropFirst
      <4>2. /\ Tail(postponed[p]) \in Seq(Items) /\ Len(postponed[p]) \in Nat
            /\ DOMAIN Tail(postponed[p]) = 1..Len(postponed[p]) - 1
            /\ \A i \in 1..Len(postponed[p]) - 1 : Tail(postponed[p])[i] = postponed[p][i + 1]
            /\ DOMAIN postponed[p] = 1..Len(postponed[p])
            /\ \A i \in 1..Len(postponed[p]) - 1 : i + 1 \in 1..Len(postponed[p])
        BY <2>6, <3>1, HeadTailProperties
      <4>3. \A i \in DOMAIN Tail(postponed[p]) : Tail(postponed[p])[i] \in Range(postponed[p])
        BY <4>2 DEF Range
      <4>4. Range(Tail(postponed[p])) \subseteq Range(postponed[p])
        BY <4>3 DEF Range
      <4> QED BY <4>1, <4>2, <4>4
    <3>2. CASE ~(postponed[p] # <<>> /\ Head(postponed[p]) = r)
      BY <2>6, <3>2 DEF DropFirst
    <3> QED BY <3>1, <3>2
  <2>8. /\ postponed' \in [Requests -> Seq(Items)]
        /\ \A q \in Requests : Range(postponed'[q]) \subseteq Range(postponed[q])
    <3>1. postponed \in [Requests -> Seq(Items)]
      BY <2>t DEF TypeOK
    <3> HIDE DEF p
    <3> DEFINE d == DropFirst(postponed[p], r)
    <3>2. /\ d \in Seq(Items) /\ Range(d) \subseteq Range(postponed[p])
          /\ postponed' = [postponed EXCEPT ![p] = d]
      BY <2>4, <2>7
    <3> HIDE DEF d
    <3> QED BY <3>1, <3>2, <2>3
  <2>9. Live' = Live
    BY <2>4 DEF Live
  <2>10. TypeOK'
    <3>1. \A q \in Requests : pos'[q] \in NotStarted..Len(Script(q)')
      BY <2>t, <2>4 DEF TypeOK, Script
    <3>2. upstream' \in SUBSET Requests /\ done' \in SUBSET Requests /\ aio' \in SUBSET Requests
      BY <2>t, <2>4, <2>5 DEF TypeOK
    <3>3. call' \in CallTypes
      BY <2>4, ReturnIs DEF CallTypes
    <3>4. /\ freed' \in BOOLEAN /\ torn' \in BOOLEAN /\ astray' \in BOOLEAN
          /\ again' \in BOOLEAN /\ alert' \in BOOLEAN
      BY <2>4, <2>5, <1>b
    <3>5. active' \in Requests /\ posted' \in Seq(Requests) /\ count' \in 0..255
      BY <2>3, <2>4, <2>5
    <3>6. postponed' \in [Requests -> Seq(Items)]
      BY <2>8
    <3>7. site' \in Sites /\ pos' \in [Requests -> Int]
      BY <2>t, <2>4 DEF TypeOK
    <3>8. handler' \in [Requests -> HandlerTypes] /\ reader' \in [Requests -> ReaderTypes]
      BY <2>t, <2>4 DEF TypeOK, HandlerTypes, ReaderTypes
    <3>9. client' \in ClientType /\ out' \in Seq(Requests \X (Nat \ {0}))
      BY <2>t, <2>4 DEF TypeOK, ClientType
    <3> QED BY <3>1, <3>2, <3>3, <3>4, <3>5, <3>6, <3>7, <3>8, <3>9 DEF TypeOK, CallTypes, ClientType,
               HandlerTypes, ReaderTypes
  <2>11. Started'
    BY <2>t, <2>4, <2>9, ReturnIs DEF Started, Running
  <2>12. Placed'
    BY <2>4 DEF Base, Placed, Script
  <2>13. Mentioned'
    <3>1. ASSUME NEW q \in Requests, NEW i \in DOMAIN postponed'[q], postponed'[q][i] \in Subs
          PROVE  postponed'[q][i] \in Live /\ postponed'[q][i] \in Range(Script(q))
      <4>1. postponed'[q][i] \in Range(postponed[q])
        BY <2>8, <3>1 DEF Range
      <4> QED BY <3>1, <4>1 DEF Base, Mentioned, Range
    <3> QED BY <2>3, <2>4, <2>5, <2>9, <3>1, ReturnIs DEF Mentioned, Script
  <2> QED BY <2>9, <2>10, <2>11, <2>12, <2>13 DEF Base
<1> QED BY <1>1, <1>2, <1>3, <1>4, <1>5

(* Base is kept by a step that makes a part of a body. *)
LEMMA BaseEmit ==
    ASSUME Base, NEW r \in Requests, EmitData(r) \/ Flush(r)
    PROVE  Base' /\ Live' = Live
<1>t. TypeOK
  BY DEF Base
<1>r. r \in Live
  BY DEF EmitData, Flush, Running, Base, Mentioned
<1>p. /\ pos[r] \in Int /\ pos[r] >= NotStarted /\ pos[r] <= Len(Script(r))
      /\ Len(Script(r)) \in Nat
  BY <1>t, SiteType DEF TypeOK, NotStarted
<1>1. CASE EmitData(r)
  <2> DEFINE i == pos[r] + 1
  <2>1. pos[r] >= 0 /\ pos[r] # Len(Script(r))
    BY <1>1 DEF EmitData, Running, Base, Started, Made
  <2>2. i \in pos[r]..Len(Script(r)) /\ i \in Nat \ {0}
    BY <1>p, <2>1
  <2>3. <<<<r, i>>>> \in Seq(AnyPart)
    <3> HIDE DEF i
    <3>1. <<r, i>> \in AnyPart
      BY <2>2 DEF AnyPart
    <3> QED BY <3>1
  <2>4. PICK next \in Proceed(r) : Output(r, <<<<r, i>>>>, next)
    BY <1>1 DEF EmitData
  <2>5. next \in {Call("content", r, "ok"), Call("written", r, "ok"), Return}
    BY DEF Proceed
  <2>6. /\ pos' = [pos EXCEPT ![r] = i]
        /\ UNCHANGED <<site, handler, reader, done, count, aio, freed, torn, astray, again, alert>>
    BY <1>1 DEF EmitData
  <2>7. aio' \in SUBSET Requests
    BY <1>t, <2>6 DEF TypeOK
  <2> HIDE DEF i
  <2> QED BY <1>r, <2>1, <2>2, <2>3, <2>4, <2>5, <2>6, <2>7, BaseWrites
<1>2. CASE Flush(r)
  <2> DEFINE i == pos[r] + 1
             more == Buffered(r)
             n == IF more THEN i ELSE pos[r]
             in == IF more THEN <<<<r, i>>>> ELSE <<>>
             next == Call("written", r, "ok")
  <2>1. more => pos[r] >= 0 /\ pos[r] # Len(Script(r))
    BY DEF Buffered, Made
  <2>2. n \in pos[r]..Len(Script(r)) /\ (pos[r] >= 0 \/ n = pos[r]) /\ (more => i \in Nat \ {0})
    <3> HIDE DEF more
    <3> QED BY <1>p, <2>1
  <2>3. in \in Seq(AnyPart)
    <3> HIDE DEF i, more
    <3>1. more => <<r, i>> \in AnyPart
      BY <2>2 DEF AnyPart
    <3> QED BY <3>1
  <2>4. Output(r, in, next)
    BY <1>2 DEF Flush
  <2>5. /\ next \in {Call("content", r, "ok"), Call("written", r, "ok"), Return}
        /\ next.fn # "content"
    BY DEF Call
  <2>6. /\ pos' = [pos EXCEPT ![r] = n]
        /\ aio' \in {aio, aio \cup {r}}
        /\ UNCHANGED <<site, handler, reader, done, count, freed, torn, astray, again, alert>>
    BY <1>2 DEF Flush
  <2>7. aio' \in SUBSET Requests
    BY <1>t, <2>6 DEF TypeOK
  <2> HIDE DEF n, in, next
  <2> QED BY <1>r, <2>2, <2>3, <2>4, <2>5, <2>6, <2>7, BaseWrites
<1> QED BY <1>1, <1>2

(* Base is kept by the end of the main request and by what starts a handler. *)
LEMMA BaseOther ==
    ASSUME Base,
           FinalizeMain \/ Terminate \/ FinalizeConnection \/ RunPosted \/ WriteEvent \/ ClientLeaves
    PROVE  Base' /\ Live' = Live
<1> USE DEF Alerts
<1>b. /\ active \in Live /\ count \in 0..255 /\ client \in ClientType
      /\ freed \in BOOLEAN /\ torn \in BOOLEAN /\ astray \in BOOLEAN
      /\ again \in BOOLEAN /\ alert \in BOOLEAN
      /\ posted \in Seq(Requests) /\ Range(posted) \subseteq Live
      /\ aio \subseteq Requests /\ done \subseteq Requests /\ Main \in Live
      /\ upstream \subseteq Requests
  BY BaseTyped, LiveIs
<1>h. handler \in [Requests -> HandlerTypes] /\ reader \in [Requests -> ReaderTypes]
  BY DEF Base, TypeOK, HandlerTypes, ReaderTypes
<1>f. {"posted", "content", "finalize", "terminate", "connection", "close", "event"} \subseteq Fns
  BY DEF Fns
<1>m. Main \in Requests /\ Main \notin Subs
  BY Names
<1>1. CASE FinalizeMain
  <2>1. /\ call' \in CallTypes /\ call'.fn \in {"posted", "connection"}
        /\ (call'.fn \notin Fn => call'.r \in Live)
    BY <1>1, <1>b, <1>f, CallIs, ReturnIs DEF FinalizeMain, Fn
  <2>2. /\ handler' \in [Requests -> HandlerTypes]
        /\ \A q \in Requests : handler'[q] # handler[q] => q = Main /\ handler'[q] # "handler"
    BY <1>1, <1>h DEF FinalizeMain, HandlerTypes
  <2>3. done' \in SUBSET Requests /\ alert' \in BOOLEAN
    BY <1>1, <1>b, <1>m DEF FinalizeMain
  <2>4. UNCHANGED <<site, reader, postponed, pos, upstream, active, posted, count, aio,
                               client, out, freed, torn, astray, again>>
    BY <1>1 DEF FinalizeMain
  <2>5. call'.fn # "content"
    BY <2>1
  <2> QED BY <1>b, <1>h, <2>1, <2>2, <2>3, <2>4, <2>5, BaseKept
          DEF CallTypes, ClientType, HandlerTypes, ReaderTypes
<1>2. CASE Terminate
  <2> DEFINE under == Cardinality(upstream)
  <2>1. call' = Return /\ upstream' = {}
    BY <1>2 DEF Terminate
  <2>2. /\ handler' \in [Requests -> HandlerTypes]
        /\ \A q \in Requests : handler'[q] # handler[q] => q = Main /\ handler'[q] # "handler"
    BY <1>2, <1>h DEF Terminate, HandlerTypes
  <2>3. posted' \in Seq(Requests) /\ Range(posted') \subseteq Live
    <3>1. <<Main>> \in Seq(Requests) /\ Range(<<Main>>) \subseteq Live
      BY <1>b, <1>m DEF Range
    <3> QED BY <1>2, <1>b, <3>1 DEF Terminate
  <2>4. count' \in 0..255
    <3>1. IsFiniteSet(Requests)
      BY RequestAssumption, FS_AddElement DEF Requests
    <3>2. IsFiniteSet(upstream)
      BY <1>b, <3>1, FS_Subset
    <3>3. under \in Nat
      BY <3>2, FS_CardinalityType
    <3>4. count - under \in Int
      <4> HIDE DEF under
      <4> QED BY <1>b, <3>3
    <3>5. Byte(count - under) \in 0..255
      <4> HIDE DEF under
      <4> QED BY <3>4, ByteIs
    <3> QED BY <1>2, <3>5 DEF Terminate
  <2>5. /\ UNCHANGED <<site, reader, postponed, pos, done, active, aio, client, out, freed, again>>
        /\ torn' \in BOOLEAN /\ astray' \in BOOLEAN /\ alert' \in BOOLEAN
    BY <1>2, <1>b DEF Terminate
  <2> QED BY <1>b, <1>h, <2>1, <2>2, <2>3, <2>4, <2>5, ReturnIs, BaseKept
          DEF CallTypes, ClientType, HandlerTypes, ReaderTypes, Fn
<1>3. CASE FinalizeConnection
  <2>1. /\ call' \in CallTypes /\ call'.fn \in {"posted", "close"}
        /\ (call'.fn \notin Fn => call'.r \in Live)
    BY <1>3, <1>b, <1>f, CallIs, ReturnIs DEF FinalizeConnection, Fn
  <2>2. /\ reader' \in [Requests -> ReaderTypes]
        /\ \A q \in Requests : reader'[q] # reader[q] => q = Main
    BY <1>3, <1>h DEF FinalizeConnection, ReaderTypes
  <2>3. freed' \in BOOLEAN
    BY <1>3, <1>b DEF FinalizeConnection
  <2>4. UNCHANGED <<site, handler, postponed, pos, upstream, done, active, posted, count, aio, client,
                   out, torn, astray, again, alert>>
    BY <1>3 DEF FinalizeConnection
  <2>5. call'.fn # "content" /\ \A s \in Subs : reader'[s] = reader[s]
    BY <2>1, <2>2, Names
  <2> QED BY <1>b, <1>h, <2>1, <2>2, <2>3, <2>4, <2>5, BaseKept
          DEF CallTypes, ClientType, HandlerTypes, ReaderTypes
<1>4. CASE RunPosted
  <2>1. /\ Head(posted) \in Requests /\ Tail(posted) \in Seq(Requests)
        /\ Head(posted) \in Range(posted) /\ Range(Tail(posted)) \subseteq Range(posted)
    <3>1. posted # <<>>
      BY <1>4 DEF RunPosted
    <3>2. /\ Tail(posted) \in Seq(Requests) /\ Len(posted) \in Nat /\ Len(posted) >= 1
          /\ DOMAIN Tail(posted) = 1..Len(posted) - 1
          /\ \A i \in 1..Len(posted) - 1 : Tail(posted)[i] = posted[i + 1]
          /\ DOMAIN posted = 1..Len(posted)
          /\ \A i \in 1..Len(posted) - 1 : i + 1 \in 1..Len(posted)
          /\ Head(posted) = posted[1] /\ Head(posted) \in Requests
      BY <1>b, <3>1, HeadTailProperties
    <3>3. \A i \in DOMAIN Tail(posted) : Tail(posted)[i] \in Range(posted)
      BY <3>2 DEF Range
    <3>4. posted[1] \in Range(posted)
      BY <3>2 DEF Range
    <3> QED BY <3>2, <3>3, <3>4 DEF Range
  <2>2. Head(posted) \in Live /\ Handle(Head(posted)) /\ Posting
    BY <1>4, <1>b, <2>1 DEF RunPosted, Posting
  <2> QED BY <2>2, BaseHandle
<1>5. CASE WriteEvent
  <2>1. Handle(active) /\ Posting
    BY <1>5, <1>b DEF WriteEvent, Posting
  <2> QED BY <1>b, <2>1, BaseHandle
<1>6. CASE ClientLeaves
  <2>1. /\ call' \in CallTypes /\ call'.fn \in {"loop", "finalize", "close"}
        /\ (call'.fn \notin Fn => call'.r \in Live)
    <3>1. call' = Noticed(active)
      BY <1>6 DEF ClientLeaves
    <3>2. \/ call' = Call("finalize", active, "closed")
          \/ call' = Call("finalize", active, "done")
          \/ call' = Call("close", Main, "ok")
          \/ call' = Loop
      BY <3>1 DEF Noticed
    <3> QED BY <1>b, <1>f, <3>2, CallIs, ReturnIs DEF Fn
  <2>2. client' \in ClientType
    BY <1>6, <1>b DEF ClientLeaves, ClientType
  <2>3. upstream' \subseteq upstream
    BY <1>6 DEF ClientLeaves
  <2>4. UNCHANGED <<site, handler, reader, postponed, pos, done, active, posted, count, aio, out,
                   freed, torn, astray, again, alert>>
    BY <1>6 DEF ClientLeaves
  <2>5. call'.fn # "content"
    BY <2>1
  <2> QED BY <1>b, <2>1, <2>2, <2>3, <2>4, <2>5, BaseQuiet
<1> QED BY <1>1, <1>2, <1>3, <1>4, <1>5, <1>6

(* All steps. *)
LEMMA BaseNext ==
    ASSUME Base, [Next]_vars
    PROVE  Base'
<1>1. CASE UNCHANGED vars
  <2>1. Live' = Live
    BY <1>1 DEF vars, Live
  <2> QED BY <1>1, <2>1, SMTT(60) DEF vars, Base, TypeOK, Started, Placed, Mentioned, Script, Running
<1>2. CASE Next
  <2>1. ASSUME NEW r \in Requests, Content(r) \/ Finalize(r) PROVE Base'
    <3>1. \/ EmitData(r) \/ Flush(r) \/ Subrequest(r) \/ EndContent(r) \/ FinalizeDone(r)
          \/ Written(r) \/ FinalizeError(r) \/ FinalizeLater(r) \/ FinalizeActive(r) \/ FinalizeEarly(r)
      BY <2>1 DEF Content, Finalize
    <3>2. EndContent(r) \/ FinalizeDone(r) => Simple
      BY DEF Simple
    <3> QED BY <3>1, <3>2, BaseEmit, BaseSubrequest, BaseSimple, BaseFinalizes
  <2>2. CASE Idle \/ Close \/ Events
    BY <2>2, BaseSimple DEF Simple
  <2>3. CASE FinalizeMain \/ Terminate \/ FinalizeConnection \/ RunPosted \/ WriteEvent \/ ClientLeaves
    BY <2>3, BaseOther
  <2> QED BY <1>2, <2>1, <2>2, <2>3 DEF Next, Work
<1> QED BY <1>1, <1>2

(* Base holds at first. *)
LEMMA BaseInit == ASSUME Init PROVE Base
<1>1. TypeOK
  <2>1. Main \in Requests /\ <<Main>> \in Seq(Requests)
    BY Names
  <2>2. \A r \in Requests : Len(Script(r)) \in Nat
    BY SiteType DEF Init
  <2>3. \A r \in Requests : pos[r] \in NotStarted..Len(Script(r))
    BY <2>2 DEF Init, NotStarted
  <2>4. call \in CallTypes
    BY ReturnIs DEF Init
  <2>5. postponed \in [Requests -> Seq(Items)] /\ pos \in [Requests -> Int]
    BY DEF Init, NotStarted
  <2>6. handler \in [Requests -> HandlerTypes] /\ reader \in [Requests -> ReaderTypes]
    BY DEF Init, HandlerTypes, ReaderTypes
  <2>7. /\ upstream \in SUBSET Requests /\ done \in SUBSET Requests /\ aio \in SUBSET Requests
    BY DEF Init
  <2>9. count \in 0..255 /\ site \in Sites /\ active \in Requests /\ posted \in Seq(Requests)
    BY <2>1 DEF Init
  <2>10. /\ freed \in BOOLEAN /\ torn \in BOOLEAN /\ astray \in BOOLEAN /\ again \in BOOLEAN
        /\ alert \in BOOLEAN
    BY DEF Init
  <2>8. /\ client \in ClientType
        /\ out \in Seq(Requests \X (Nat \ {0}))
    BY DEF Init, ClientType
  <2> QED BY <2>3, <2>4, <2>5, <2>6, <2>7, <2>8, <2>9, <2>10 DEF TypeOK, CallTypes, ClientType,
             HandlerTypes, ReaderTypes
<1>2. Live = {Main}
  BY Names DEF Init, Live
<1>3. Started /\ Placed
  BY <1>2, Names, ReturnIs DEF Init, Started, Placed, NotStarted, Running
<1>4. Mentioned
  BY <1>2, ReturnIs DEF Init, Mentioned, Range
<1> QED BY <1>1, <1>3, <1>4 DEF Base

(* Base holds always. *)
LEMMA BaseAlways == Spec => []Base
  BY BaseInit, BaseNext, PTL DEF Spec

(* Every variable keeps its type, whatever the responses are, however the     *)
(* client behaves and whatever was terminated or freed: the count fits its    *)
(* field, a position is within the response, a list has items of a response. *)
THEOREM TypeCorrect == Spec => []TypeOK
<1>1. Base => TypeOK
  BY DEF Base
<1> QED BY <1>1, BaseAlways, PTL

-----------------------------------------------------------------------------
(* What a request does before any is terminated *)

(* The types that the steps below need. *)
LEMMA Typed ==
    ASSUME Base
    PROVE  /\ handler \in [Requests -> HandlerTypes] /\ reader \in [Requests -> ReaderTypes]
           /\ pos \in [Requests -> Int] /\ postponed \in [Requests -> Seq(Items)]
           /\ \A r \in Requests : /\ site.kind[r] \in Kinds /\ pos[r] >= NotStarted
                                  /\ Len(Script(r)) \in Nat /\ pos[r] <= Len(Script(r))
                                  /\ site.kind[r] = "file" => Len(Script(r)) > 0
<1>1. TypeOK
  BY DEF Base
<1>2. \A r \in Requests : Len(Script(r)) \in Nat /\ (site.kind[r] = "file" => Len(Script(r)) > 0)
  BY <1>1, SiteType DEF TypeOK
<1>3. \A r \in Requests : pos[r] >= NotStarted /\ pos[r] <= Len(Script(r)) /\ site.kind[r] \in Kinds
  BY <1>1, <1>2, SiteType DEF TypeOK, NotStarted
<1> QED BY <1>1, <1>2, <1>3 DEF TypeOK, HandlerTypes, ReaderTypes

(* The subrequests that exist and are not done. *)
LEMMA UnfinishedIs == /\ Unfinished = (Live \cap Subs) \ done
                      /\ Unfinished' = (Live' \cap Subs) \ done'
  BY Names DEF Unfinished, Live

(* Where a handler runs. *)
Handling(r) == /\ site' = site /\ r \in Live
               /\ \A q \in Range(posted) : q # r => q \in Range(posted')
               /\ call.fn \in {"posted", "event"}
               /\ call.fn = "event" => r = active
               /\ handler[Main] = "handler" => r = Main
               /\ call.fn = "event" => posted' = <<>>

(* What a request does, before any is terminated. *)
Groups == Calls /\ Handlers /\ Finished /\ Broken

(* The groups are kept when a request starts. *)
LEMMA GroupsStarts ==
    ASSUME Base, Base', Live' = Live, Groups, NEW r, Starts(r), Handling(r)
    PROVE  Groups'
<1>t. /\ handler \in [Requests -> HandlerTypes] /\ reader \in [Requests -> ReaderTypes]
      /\ pos \in [Requests -> Int]
      /\ \A q \in Requests : /\ site.kind[q] \in Kinds /\ pos[q] >= NotStarted
                             /\ Len(Script(q)) \in Nat /\ pos[q] <= Len(Script(q))
                             /\ site.kind[q] = "file" => Len(Script(q)) > 0
  BY Typed
<1>n. /\ r \in Requests /\ r \in Live /\ Main \in Requests /\ Live \subseteq Requests
      /\ NotStarted = -1
  BY LiveIs, Names DEF Handling, NotStarted
<1>p. pos[r] = -1 /\ pos' = [pos EXCEPT ![r] = 0] /\ handler[r] = "handler" /\ ~Buffered(r)
  BY <1>n DEF Starts, Base, Started, Buffered
<1>b. \A q \in Requests : Buffered(q) => Buffered(q)'
  BY <1>n, <1>p, <1>t DEF Buffered, Made, Script, Starts, Handling
<1>1. Calls'
  <2>1. /\ r \notin upstream /\ r \notin done /\ (r = Main => Main \notin done)
        /\ handler[Main] = "handler" => r = Main
    BY <1>n, <1>p DEF Handling, Groups, Handlers, Finished
  <2>2. /\ handler' \in [Requests -> HandlerTypes] /\ done' = done /\ again' = again
        /\ \A q \in Requests : q # r => handler'[q] = handler[q]
        /\ handler'[r] # "handler"
        /\ \/ site.kind[r] = "page" /\ handler'[r] = "phases" /\ call' = Call("content", r, "ok")
           \/ /\ site.kind[r] = "file" /\ handler'[r] = "phases" /\ call' = Call("finalize", r, "ok")
              /\ upstream' = upstream
           \/ /\ site.kind[r] = "proxy" /\ handler'[r] = "upstream" /\ call' = Return
    BY <1>n, <1>t, <1>p DEF Starts, HandlerTypes
  <2>3. site.kind[r] = "file" => Buffered(r)'
    BY <1>n, <1>t, <1>p DEF Buffered, Made, Script, Handling
  <2>4. handler'[Main] # "handler"
    BY <1>n, <2>1, <2>2
  <2>5. site' = site
    BY DEF Handling
  <2> QED BY <1>n, <2>1, <2>2, <2>3, <2>4, <2>5 DEF Calls, On, Ending, Running, Call, Return
<1>2. Handlers'
  BY <1>t, <1>n, <1>p DEF Starts, Handling, Groups, Calls, Handlers, Finished, Broken, On,
     Ending, Running, Call, Return, Loop, Made, Buffered, Script
<1>3. Finished'
  <2>1. Unfinished' = Unfinished /\ done' = done
    BY UnfinishedIs DEF Starts
  <2>2. r \notin done
    BY <1>p DEF Groups, Finished
  <2>3. \A q \in done : q \in Requests /\ q # r
    BY <2>2 DEF Base, TypeOK
  <2>4. \A q \in done : ~Buffered(q)'
    BY <1>n, <1>p, <1>t, <2>3 DEF Buffered, Made, Script, Starts, Handling, Groups, Finished
  <2>5. \A q \in done : handler'[q] = handler[q]
    BY <1>t, <1>n, <2>3 DEF Starts
  <2>6. /\ aio' \subseteq aio \cup {r} /\ upstream' \subseteq upstream \cup {r}
        /\ postponed' = postponed /\ active' = active
    BY DEF Starts
  <2>7. Main \notin done
    <3>1. r = Main \/ r \in Unfinished
      BY <1>n, <2>2, UnfinishedIs, Names
    <3> QED BY <2>2, <3>1 DEF Groups, Finished
  <2>8. \A q \in done : q \notin upstream' \cup aio'
    BY <2>3, <2>6 DEF Groups, Finished
  <2> QED BY <2>1, <2>3, <2>4, <2>5, <2>6, <2>7, <2>8 DEF Groups, Finished
<1>4. Broken'
  BY <1>t, <1>n, <1>p DEF Starts, Handling, Groups, Calls, Handlers, Finished, Broken, On,
     Ending, Running, Call, Return, Loop, Made, Buffered, Script, Unfinished
<1> QED BY <1>1, <1>2, <1>3, <1>4 DEF Groups

(* The groups are kept by any handler. *)
LEMMA GroupsHandle ==
    ASSUME Base, Base', Live' = Live, Groups, NEW r, Handle(r), Handling(r)
    PROVE  Groups'
<1>t. /\ handler \in [Requests -> HandlerTypes] /\ reader \in [Requests -> ReaderTypes]
      /\ pos \in [Requests -> Int]
      /\ \A q \in Requests : site.kind[q] \in Kinds
  BY Typed
<1>n. r \in Requests /\ r \in Live /\ Main \in Requests /\ Live \subseteq Requests
  BY LiveIs, Names DEF Handling
<1>0. CASE Starts(r)
  BY <1>0, GroupsStarts
<1>7. CASE TerminateHandler(r)
  BY <1>7, <1>n DEF TerminateHandler, Groups, Handlers
<1>x. ASSUME Downstream(r) \/ Flushes(r) \/ Finalizer(r) \/ Ignores(r) \/ PhasesAgain(r)
      PROVE  Groups'
  <2>1. /\ UNCHANGED <<handler, reader, postponed, pos, done, active, count, aio, client>>
        /\ site' = site
        /\ upstream' \subseteq upstream
    BY <1>x DEF Downstream, Flushes, Finalizer, Ignores, PhasesAgain, body, Handling
  <2>b. \A q \in Requests : (Buffered(q)' <=> Buffered(q)) /\ (Made(q)' <=> Made(q))
    BY <2>1 DEF Buffered, Made, Script
  <2>3. Finished'
    <3>1. Unfinished' = Unfinished
      BY <2>1, UnfinishedIs
    <3>2. \A q \in done : q \in Requests
      BY DEF Base, TypeOK
    <3> QED BY <2>1, <2>b, <3>1, <3>2 DEF Finished, Groups, Handling
  <2> USE DEF Handling, Groups, Calls, Handlers, Finished, Broken, On, Ending, Running, Call, Return, Loop
  <2>d. CASE Downstream(r)
    <3>1. Calls'
      BY <1>t, <1>n, <2>1, <2>b, <2>d DEF Downstream
    <3>2. Handlers'
      BY <1>t, <1>n, <2>1, <2>b, <2>d DEF Downstream
    <3>3. Broken'
      BY <1>t, <1>n, <2>1, <2>b, <2>d DEF Downstream
    <3> QED BY <2>3, <3>1, <3>2, <3>3
  <2>e. CASE Flushes(r)
    <3>1. Calls'
      BY <1>t, <1>n, <2>1, <2>b, <2>e DEF Flushes
    <3>2. Handlers'
      BY <1>t, <1>n, <2>1, <2>b, <2>e DEF Flushes
    <3>3. Broken'
      BY <1>t, <1>n, <2>1, <2>b, <2>e DEF Flushes
    <3> QED BY <2>3, <3>1, <3>2, <3>3
  <2>f. CASE Finalizer(r)
    <3>1. Calls'
      BY <1>t, <1>n, <2>1, <2>b, <2>f DEF Finalizer, body
    <3>2. Handlers'
      BY <1>t, <1>n, <2>1, <2>b, <2>f DEF Finalizer, body
    <3>3. Broken'
      BY <1>t, <1>n, <2>1, <2>b, <2>f DEF Finalizer, body
    <3> QED BY <2>3, <3>1, <3>2, <3>3
  <2>g. CASE Ignores(r)
    <3>1. Calls'
      BY <1>t, <1>n, <2>1, <2>b, <2>g DEF Ignores, body
    <3>2. Handlers'
      BY <1>t, <1>n, <2>1, <2>b, <2>g DEF Ignores, body
    <3>3. Broken'
      BY <1>t, <1>n, <2>1, <2>b, <2>g DEF Ignores, body
    <3> QED BY <2>3, <3>1, <3>2, <3>3
  <2>h. CASE PhasesAgain(r)
    <3>1. Calls'
      BY <1>t, <1>n, <2>1, <2>b, <2>h DEF PhasesAgain, body
    <3>2. Handlers'
      BY <1>t, <1>n, <2>1, <2>b, <2>h DEF PhasesAgain, body
    <3>4. r \notin aio
      BY <1>n, <2>h DEF PhasesAgain, Buffered
    <3>3. Broken'
      BY <1>t, <1>n, <2>1, <2>b, <2>h, <3>4 DEF PhasesAgain, body
    <3> QED BY <2>3, <3>1, <3>2, <3>3
  <2> QED BY <1>x, <2>d, <2>e, <2>f, <2>g, <2>h
<1> QED BY <1>0, <1>7, <1>x DEF Handle

(* The groups are kept by events, and when a response is made. *)
LEMMA GroupsSimple ==
    ASSUME Base, Base', Live' = Live, Groups, ~freed, NEW r \in Requests,
           Idle \/ Writable \/ SendTimeout \/ Lingered \/ UpstreamEvent(r) \/ PipeAborts(r)
           \/ AioDone(r) \/ EndContent(r) \/ ClientLeaves
    PROVE  Groups'
<1>t. /\ handler \in [Requests -> HandlerTypes] /\ reader \in [Requests -> ReaderTypes]
      /\ \A q \in Requests : site.kind[q] \in Kinds
      /\ upstream \subseteq Requests /\ aio \subseteq Requests /\ done \subseteq Requests
  BY Typed, BaseTyped
<1>n. active \in Requests /\ active \in Live /\ Main \in Requests /\ Live \subseteq Requests
  BY LiveIs, BaseTyped
<1>0. /\ UNCHANGED <<site, handler, reader, postponed, pos, done, active, count, posted>>
      /\ upstream' \subseteq upstream /\ aio' \subseteq aio
  BY DEF Idle, Writable, SendTimeout, Lingered, UpstreamEvent, PipeAborts, AioDone,
     EndContent,
         ClientLeaves, body
<1>b. \A q \in Requests : (Buffered(q)' <=> Buffered(q)) /\ (Made(q)' <=> Made(q))
  BY <1>0 DEF Buffered, Made, Script
<1>u. Unfinished' = Unfinished
  BY <1>0, UnfinishedIs
<1>p. Range(posted) = {} \/ posted # <<>>
  BY DEF Range
<1> USE DEF Groups, Calls, Handlers, Finished, Broken, On, Ending, Running, Call, Return, Loop, Waits, body
<1>1. CASE Idle
  <2>a. r \in upstream => r \notin aio
    BY DEF Buffered
  <2>1. Calls'
    BY <1>t, <1>n, <1>0, <1>b, <1>p, <1>1, <2>a DEF Idle
  <2>2. Handlers'
    BY <1>t, <1>n, <1>0, <1>b, <1>p, <1>1, <2>a DEF Idle
  <2>3. Finished'
    BY <1>t, <1>n, <1>0, <1>b, <1>u, <1>1, <2>a DEF Idle
  <2>4. Broken'
    BY <1>t, <1>n, <1>0, <1>b, <1>p, <1>1, <2>a DEF Idle
  <2> QED BY <2>1, <2>2, <2>3, <2>4
<1>2. CASE Writable
  <2>a. r \in upstream => r \notin aio
    BY DEF Buffered
  <2>1. Calls'
    BY <1>t, <1>n, <1>0, <1>b, <1>p, <1>2, <2>a DEF Writable
  <2>2. Handlers'
    BY <1>t, <1>n, <1>0, <1>b, <1>p, <1>2, <2>a DEF Writable
  <2>3. Finished'
    BY <1>t, <1>n, <1>0, <1>b, <1>u, <1>2, <2>a DEF Writable
  <2>4. Broken'
    BY <1>t, <1>n, <1>0, <1>b, <1>p, <1>2, <2>a DEF Writable
  <2> QED BY <2>1, <2>2, <2>3, <2>4
<1>3. CASE SendTimeout
  <2>a. r \in upstream => r \notin aio
    BY DEF Buffered
  <2>1. Calls'
    BY <1>t, <1>n, <1>0, <1>b, <1>p, <1>3, <2>a DEF SendTimeout
  <2>2. Handlers'
    BY <1>t, <1>n, <1>0, <1>b, <1>p, <1>3, <2>a DEF SendTimeout
  <2>3. Finished'
    BY <1>t, <1>n, <1>0, <1>b, <1>u, <1>3, <2>a DEF SendTimeout
  <2>4. Broken'
    BY <1>t, <1>n, <1>0, <1>b, <1>p, <1>3, <2>a DEF SendTimeout
  <2> QED BY <2>1, <2>2, <2>3, <2>4
<1>4. CASE Lingered
  <2>a. r \in upstream => r \notin aio
    BY DEF Buffered
  <2>1. Calls'
    BY <1>t, <1>n, <1>0, <1>b, <1>p, <1>4, <2>a DEF Lingered
  <2>2. Handlers'
    BY <1>t, <1>n, <1>0, <1>b, <1>p, <1>4, <2>a DEF Lingered
  <2>3. Finished'
    BY <1>t, <1>n, <1>0, <1>b, <1>u, <1>4, <2>a DEF Lingered
  <2>4. Broken'
    BY <1>t, <1>n, <1>0, <1>b, <1>p, <1>4, <2>a DEF Lingered
  <2> QED BY <2>1, <2>2, <2>3, <2>4
<1>5. CASE UpstreamEvent(r)
  <2>a. r \in upstream => r \notin aio
    BY DEF Buffered
  <2>1. Calls'
    BY <1>t, <1>n, <1>0, <1>b, <1>p, <1>5, <2>a DEF UpstreamEvent
  <2>2. Handlers'
    BY <1>t, <1>n, <1>0, <1>b, <1>p, <1>5, <2>a DEF UpstreamEvent
  <2>3. Finished'
    BY <1>t, <1>n, <1>0, <1>b, <1>u, <1>5, <2>a DEF UpstreamEvent
  <2>4. Broken'
    BY <1>t, <1>n, <1>0, <1>b, <1>p, <1>5, <2>a DEF UpstreamEvent
  <2> QED BY <2>1, <2>2, <2>3, <2>4
<1>6. CASE PipeAborts(r)
  <2>a. r \in upstream => r \notin aio
    BY DEF Buffered
  <2>1. Calls'
    BY <1>t, <1>n, <1>0, <1>b, <1>p, <1>6, <2>a DEF PipeAborts
  <2>2. Handlers'
    BY <1>t, <1>n, <1>0, <1>b, <1>p, <1>6, <2>a DEF PipeAborts
  <2>3. Finished'
    BY <1>t, <1>n, <1>0, <1>b, <1>u, <1>6, <2>a DEF PipeAborts
  <2>4. Broken'
    BY <1>t, <1>n, <1>0, <1>b, <1>p, <1>6, <2>a DEF PipeAborts
  <2> QED BY <2>1, <2>2, <2>3, <2>4
<1>7. CASE AioDone(r)
  <2>a. r \in upstream => r \notin aio
    BY DEF Buffered
  <2>1. Calls'
    BY <1>t, <1>n, <1>0, <1>b, <1>p, <1>7, <2>a DEF AioDone
  <2>2. Handlers'
    BY <1>t, <1>n, <1>0, <1>b, <1>p, <1>7, <2>a DEF AioDone
  <2>3. Finished'
    BY <1>t, <1>n, <1>0, <1>b, <1>u, <1>7, <2>a DEF AioDone
  <2>4. Broken'
    BY <1>t, <1>n, <1>0, <1>b, <1>p, <1>7, <2>a DEF AioDone
  <2> QED BY <2>1, <2>2, <2>3, <2>4
<1>8. CASE EndContent(r)
  <2>a. r \in upstream => r \notin aio
    BY DEF Buffered
  <2>1. Calls'
    BY <1>t, <1>n, <1>0, <1>b, <1>p, <1>8, <2>a DEF EndContent
  <2>2. Handlers'
    BY <1>t, <1>n, <1>0, <1>b, <1>p, <1>8, <2>a DEF EndContent
  <2>3. Finished'
    BY <1>t, <1>n, <1>0, <1>b, <1>u, <1>8, <2>a DEF EndContent
  <2>4. Broken'
    BY <1>t, <1>n, <1>0, <1>b, <1>p, <1>8, <2>a DEF EndContent
  <2> QED BY <2>1, <2>2, <2>3, <2>4
<1>9. CASE ClientLeaves
  <2>0. Running("loop") /\ Range(posted) = {} /\ ~client.error /\ ~client.timedout
    BY <1>9, <1>p DEF ClientLeaves, Range
  <2>x. reader[active] = "broken" => active \in upstream
    BY <1>n, <1>t, <2>0
  <2>y. active = Main /\ Main \in done => reader[Main] = "linger"
    BY <2>0
  <2>z. client' = [client EXCEPT !.gone = TRUE, !.error = @ \/ reader[active] \in {"test", "broken"}]
    BY <1>9 DEF ClientLeaves
  <2>w. /\ client'.timedout = client.timedout
        /\ (client'.error <=> reader[active] \in {"test", "broken"})
    BY <2>0, <2>z, BaseTyped DEF ClientType
  <2>v. /\ call' = Noticed(active)
        /\ upstream' = (IF reader[active] = "broken" THEN upstream \ {active} ELSE upstream)
        /\ UNCHANGED <<again, aio>>
    BY <1>9 DEF ClientLeaves
  <2>c. \/ reader[active] = "test" /\ call' = Call("finalize", active, "closed")
        \/ reader[active] = "broken" /\ call' = Call("finalize", active, "closed")
        \/ reader[active] = "linger" /\ call' = Call("close", Main, "ok")
        \/ reader[active] \notin {"test", "broken", "linger"} /\ call' = Loop
    BY <2>v, <2>x DEF Noticed
  <2>1. Calls'
    <3>1. active \in done => reader[active] \in {"linger"}
      BY <1>n, <1>t, <2>y
    <3>2. reader[active] = "test" => active \notin upstream
      <4>1. \A q \in upstream : handler[q] = "upstream"
        OBVIOUS
      <4>2. \A q \in Requests : handler[q] = "upstream" => reader[q] = "broken"
        OBVIOUS
      <4> QED BY <1>n, <4>1, <4>2
    <3>3. CASE reader[active] = "test" /\ call' = Call("finalize", active, "closed")
      BY <3>1, <3>2, <3>3, <1>t, <1>n, <1>0, <1>b, <1>p, <2>0, <2>x, <2>y, <2>w, <2>v, <2>c
    <3>4. CASE reader[active] = "broken" /\ call' = Call("finalize", active, "closed")
      BY <3>1, <3>2, <3>4, <1>t, <1>n, <1>0, <1>b, <1>p, <2>0, <2>x, <2>y, <2>w, <2>v, <2>c
    <3>5. CASE reader[active] = "linger" /\ call' = Call("close", Main, "ok")
      BY <3>1, <3>5, <1>t, <1>n, <1>0, <1>b, <1>p, <2>0, <2>x, <2>y, <2>w, <2>v, <2>c
    <3>6. CASE call' = Loop
      BY <3>6, <1>t, <1>n, <1>0, <1>b, <1>p, <2>0, <2>x, <2>y, <2>w, <2>v, <2>c
    <3> QED BY <2>c, <3>3, <3>4, <3>5, <3>6
  <2>2. Handlers'
    BY <1>t, <1>n, <1>0, <1>b, <1>p, <2>0, <2>x, <2>y, <2>w, <2>v, <2>c
  <2>3. Finished'
    BY <1>t, <1>n, <1>0, <1>b, <1>u, <2>0, <2>x, <2>y, <2>w, <2>v, <2>c
  <2>4. Broken'
    <3>3. CASE reader[active] \in {"test", "broken"} /\ call' = Call("finalize", active, "closed")
      BY <3>3, <1>n, <1>0, <2>0, <2>w, <2>v
    <3>5. CASE reader[active] = "linger" /\ call' = Call("close", Main, "ok")
      BY <3>5, <1>n, <1>0, <2>0, <2>w, <2>v
    <3>6. CASE reader[active] \notin {"test", "broken"} /\ call' = Loop
      BY <3>6, <1>n, <1>0, <2>0, <2>w, <2>v
    <3> QED BY <2>c, <3>3, <3>5, <3>6
  <2> QED BY <2>1, <2>2, <2>3, <2>4
<1> QED BY <1>1, <1>2, <1>3, <1>4, <1>5, <1>6, <1>7, <1>8, <1>9

(* A step that writes: what comes in, where it goes on, how far the script   *)
(* is made.                                                                  *)
Writes(r, in, next, n) ==
    /\ n \in pos[r]..Len(Script(r)) /\ pos' = [pos EXCEPT ![r] = n]
    /\ GoesOn(r, postponed[r] \o in, next) \/ Breaks(r, postponed[r] \o in)
    /\ UNCHANGED <<site, handler, reader, done, count, freed, torn, astray, again, alert>>

Emits(r, in, next, n) ==
    /\ Running("content") /\ call.r = r /\ pos[r] >= 0
    /\ next \in Proceed(r) /\ in = <<<<r, n>>>>
    /\ n = pos[r] + 1 /\ Script(r)[n] = Data /\ aio' = aio

Drains(r, in, next, n) ==
    /\ Running("flush") /\ call.r = r
    /\ next = Call("written", r, "ok")
    /\ n = (IF Buffered(r) THEN pos[r] + 1 ELSE pos[r])
    /\ in = (IF Buffered(r) THEN <<<<r, n>>>> ELSE <<>>)
    /\ aio' = IF Buffered(r) /\ n < Len(Script(r)) THEN aio \cup {r} ELSE aio

(* Both steps that write are of this kind. *)
LEMMA WriteSteps ==
    ASSUME Base, NEW r \in Requests, EmitData(r) \/ Flush(r)
    PROVE  \E in \in Seq(AnyPart), n \in Int,
              next \in {Call("content", r, "ok"), Call("written", r, "ok"), Return} :
              /\ Writes(r, in, next, n)
              /\ Emits(r, in, next, n) \/ Drains(r, in, next, n)
<1>t. TypeOK
  BY DEF Base
<1>p. /\ pos[r] \in Int /\ pos[r] >= NotStarted /\ pos[r] <= Len(Script(r))
      /\ Len(Script(r)) \in Nat
  BY Typed
<1>o. \A in \in Seq(AnyPart) : \A next : Output(r, in, next) =>
         GoesOn(r, postponed[r] \o in, next) \/ Breaks(r, postponed[r] \o in)
  BY <1>t, OutputIs
<1>1. CASE EmitData(r)
  <2> DEFINE i == pos[r] + 1
  <2>1. pos[r] >= 0 /\ pos[r] # Len(Script(r))
    BY <1>1 DEF EmitData, Running, Base, Started, Made
  <2>2. i \in pos[r]..Len(Script(r)) /\ i \in Nat \ {0} /\ i \in Int
    BY <1>p, <2>1
  <2>3. <<<<r, i>>>> \in Seq(AnyPart)
    <3> HIDE DEF i
    <3>1. <<r, i>> \in AnyPart
      BY <2>2 DEF AnyPart
    <3> QED BY <3>1
  <2>4. PICK next \in Proceed(r) : Output(r, <<<<r, i>>>>, next)
    BY <1>1 DEF EmitData
  <2>5. next \in {Call("content", r, "ok"), Call("written", r, "ok"), Return}
    BY DEF Proceed
  <2>6. /\ pos' = [pos EXCEPT ![r] = i] /\ aio' = aio /\ Script(r)[i] = Data
        /\ Running("content") /\ call.r = r
        /\ UNCHANGED <<site, handler, reader, done, count, freed, torn, astray, again, alert>>
    BY <1>1 DEF EmitData
  <2>7. i = pos[r] + 1
    OBVIOUS
  <2> HIDE DEF i
  <2>8. Writes(r, <<<<r, i>>>>, next, i) /\ Emits(r, <<<<r, i>>>>, next, i)
    BY <1>o, <2>1, <2>2, <2>3, <2>4, <2>6, <2>7 DEF Writes, Emits
  <2> QED BY <2>2, <2>3, <2>5, <2>8
<1>2. CASE Flush(r)
  <2> DEFINE i == pos[r] + 1
             more == Buffered(r)
             n == IF more THEN i ELSE pos[r]
             in == IF more THEN <<<<r, i>>>> ELSE <<>>
             next == Call("written", r, "ok")
  <2>1. more => pos[r] >= 0 /\ pos[r] # Len(Script(r))
    BY DEF Buffered, Made
  <2>2. n \in pos[r]..Len(Script(r)) /\ n \in Int /\ (more => i \in Nat \ {0})
    <3> HIDE DEF more
    <3> QED BY <1>p, <2>1
  <2>3. in \in Seq(AnyPart)
    <3> HIDE DEF i, more
    <3>1. more => <<r, i>> \in AnyPart
      BY <2>2 DEF AnyPart
    <3> QED BY <3>1
  <2>4. Output(r, in, next)
    BY <1>2 DEF Flush
  <2>6. /\ pos' = [pos EXCEPT ![r] = n]
        /\ aio' = IF more /\ n < Len(Script(r)) THEN aio \cup {r} ELSE aio
        /\ Running("flush") /\ call.r = r
        /\ UNCHANGED <<site, handler, reader, done, count, freed, torn, astray, again, alert>>
    BY <1>2 DEF Flush
  <2>7. Writes(r, in, next, n)
    <3> HIDE DEF n, in, next
    <3> QED BY <1>o, <2>2, <2>3, <2>4, <2>6 DEF Writes
  <2>8. Drains(r, in, next, n)
    <3>1. /\ in = (IF Buffered(r) THEN <<<<r, n>>>> ELSE <<>>)
          /\ n = (IF Buffered(r) THEN pos[r] + 1 ELSE pos[r])
      OBVIOUS
    <3> HIDE DEF n, in
    <3> QED BY <2>6, <3>1 DEF Drains
  <2> HIDE DEF n, in
  <2> QED BY <2>2, <2>3, <2>7, <2>8
<1> QED BY <1>1, <1>2

(* The groups are kept by a step that writes. *)
LEMMA GroupsWrites ==
    ASSUME Base, Base', Live' = Live, Groups, Lists, NEW r \in Requests, EmitData(r) \/ Flush(r)
    PROVE  Groups'
<1>t. /\ handler \in [Requests -> HandlerTypes] /\ reader \in [Requests -> ReaderTypes]
      /\ pos \in [Requests -> Int] /\ postponed \in [Requests -> Seq(Items)]
      /\ \A q \in Requests : /\ site.kind[q] \in Kinds /\ pos[q] >= NotStarted
                             /\ Len(Script(q)) \in Nat /\ pos[q] <= Len(Script(q))
      /\ upstream \subseteq Requests /\ aio \subseteq Requests /\ done \subseteq Requests
      /\ client \in ClientType /\ client' \in ClientType /\ posted \in Seq(Requests)
      /\ TypeOK /\ call.r \in Live
  BY Typed, BaseTyped, LiveIs DEF EmitData, Flush, Running, Fn, Base, TypeOK, ClientType
<1>n. active \in Requests /\ active \in Live /\ Main \in Requests /\ Live \subseteq Requests
  BY LiveIs, BaseTyped
<1>w. PICK in \in Seq(AnyPart), n \in Int,
              next \in {Call("content", r, "ok"), Call("written", r, "ok"), Return} :
              /\ Writes(r, in, next, n)
              /\ Emits(r, in, next, n) \/ Drains(r, in, next, n)
  BY WriteSteps
<1> DEFINE list == postponed[r] \o in
<1>l. list \in Seq(Items) /\ Range(list) = Range(postponed[r]) \cup Range(in)
  <2>1. postponed[r] \in Seq(Items) /\ in \in Seq(Items)
    BY <1>t, ItemsAre
  <2> QED BY <2>1, RangeConcat
<1>g. GoesOn(r, list, next) \/ Breaks(r, list)
  BY <1>w DEF Writes
<1> HIDE DEF list
<1>s. \A x \in Range(list) : x \in Subs => x \notin done
  <2>1. \A x \in Range(postponed[r]) : x \in Subs => x \notin done
    BY DEF Lists, Range
  <2>2. \A x \in Range(in) : x \notin Subs
    <3>1. \A x \in Range(in) : x \in AnyPart
      BY DEF Range
    <3> QED BY <3>1, ItemsAre
  <2> QED BY <1>l, <2>1, <2>2
<1>x. /\ postponed' \in [Requests -> Seq(Items)]
      /\ \A q \in Requests : q # r => postponed'[q] = postponed[q]
      /\ upstream' \subseteq upstream
      /\ call' \in {next, Call("finalize", r, "error")}
      /\ \/ active' = active /\ posted' = posted
         \/ /\ active' \in Subs /\ active' \in Range(list)
            /\ posted' = Append(posted, active')
  BY <1>t, <1>l, <1>g, WritesIs
<1>c. \/ call' = next /\ upstream' = upstream /\ client'.error = client.error /\ client'.timedout = client.timedout
      \/ /\ call' = Call("finalize", r, "error") /\ upstream' = upstream \ {r}
         /\ client'.error = TRUE /\ client'.timedout = client.timedout /\ r = active
         /\ active' = active
  <2>1. CASE GoesOn(r, list, next)
    BY <2>1 DEF GoesOn, Keeps
  <2>2. CASE Breaks(r, list)
    BY <2>2, <1>t DEF Breaks, ClientType
  <2> QED BY <1>g, <2>1, <2>2
<1>r. r \in Live /\ r \notin done /\ Main \notin done /\ ~client.error /\ ~client.timedout
  <2>1. r \in Live /\ r \notin done /\ ~client.error /\ ~client.timedout
    BY <1>t, <1>w DEF Emits, Drains, Groups, Calls, Broken, Running
  <2>2. Main \in done => r = Main \/ r \in Unfinished
    BY <2>1, UnfinishedIs, Names
  <2> QED BY <2>1, <2>2 DEF Groups, Finished
<1>0. UNCHANGED <<site, handler, reader, done, count, again>> /\ Script(r)' = Script(r)
  BY <1>w DEF Writes, Script
<1>q. /\ \A q \in Range(posted) : q \in Range(posted')
      /\ active' = active \/ active' \in Range(posted')
  <2>1. CASE active' = active /\ posted' = posted
    BY <2>1
  <2>2. CASE active' \in Subs /\ active' \in Range(list) /\ posted' = Append(posted, active')
    <3>1. active' \in Requests
      BY <2>2, Names
    <3>2. Range(posted') = Range(posted) \cup {active'}
      BY <1>t, <2>2, <3>1, RangeAppend
    <3> QED BY <3>2
  <2> QED BY <1>x, <2>1, <2>2
<1>e. CASE Emits(r, in, next, n)
  <2>1. /\ \/ site.kind[r] = "page" /\ handler[r] = "phases"
           \/ site.kind[r] = "proxy" /\ r \in upstream
        /\ aio' = aio /\ r \notin aio
    BY <1>e DEF Emits, Groups, Calls, Handlers, Buffered
  <2>2. \A q \in Requests : Buffered(q)' <=> Buffered(q)
    BY <1>0, <1>t, <1>w, <2>1 DEF Buffered, Made, Script, Writes
  <2>3. \A q \in Requests : q # r => (Made(q)' <=> Made(q))
    BY <1>0, <1>t, <1>w, <2>1 DEF Made, Script, Writes
  <2>4. call' \in {Call("content", r, "ok"), Call("finalize", r, "error")} \/ (site.kind[r] = "proxy" /\ call' = Return)
    BY <1>e, <1>x DEF Emits, Proceed
  <2>5. Calls'
    BY <1>0, <1>c, <1>n, <1>r, <1>t, <1>e, <2>1, <2>2, <2>3, <2>4, SMTT(60) DEF Emits, Groups, Calls,
       Handlers, On, Ending, Running, Call, Return
  <2>6. Handlers'
    <3>3. (call'.r = r /\ call'.fn \in {"content", "finalize"}) \/ call' = Return
      BY <2>4 DEF Call
    <3>4. /\ call'.fn \notin {"connection", "close"} /\ call.fn = "content"
          /\ handler[Main] # "finalizer"
      BY <2>4, <1>e DEF Call, Return, Emits, Running, Groups, Handlers
    <3>5. handler[Main] \in {"writer", "empty"} => r # Main
      BY <1>n, <2>1 DEF Groups, Handlers
    <3>6. call' = Call("finalize", r, "error") \/ upstream' = upstream
      BY <1>c
    <3>7. /\ upstream' \subseteq {q \in Live : handler[q] = "upstream" /\ site.kind[q] = "proxy"}
          /\ aio' \subseteq {q \in Live : Buffered(q)'}
      BY <1>x, <1>n, <2>1, <2>2 DEF Groups, Handlers
    <3>8. ASSUME NEW q \in Requests, handler[q] = "upstream" PROVE q \in upstream' \cup done \/ On(q, Ending)'
      BY <1>0, <1>x, <1>c, <3>3, <3>4, <3>8 DEF Groups, Handlers, On, Ending, Call
    <3>9. ASSUME NEW q \in Requests, handler[q] = "finalizer", q = active' PROVE q \in Range(posted')
      BY <1>0, <1>q, <3>4, <3>9 DEF Groups, Handlers, On, Ending
    <3> QED BY <1>0, <1>n, <1>r, <1>t, <1>q, <2>1, <2>2, <2>3, <3>3, <3>4, <3>5, <3>7, <3>8,
               <3>9
            DEF Groups, Handlers, On, Ending, Running
  <2>7. Finished'
    <3>1. \A q \in done : q \in Requests /\ q # r
      BY <1>r, <1>t
    <3>2. active' = active \/ active' \notin done
      BY <1>s, <1>x
    <3> QED BY <1>0, <1>r, <1>x, <2>1, <2>2, <3>1, <3>2 DEF Groups, Finished
  <2>8. Broken'
    BY <1>c, <1>r, <1>t, <2>1, <2>4 DEF Broken, Running, Call, Return
  <2> QED BY <2>5, <2>6, <2>7, <2>8 DEF Groups
<1>f. CASE Drains(r, in, next, n)
  <2>1. handler[r] = "writer" /\ r \notin aio /\ r \notin upstream
    BY <1>f DEF Drains, Groups, Calls, Handlers, Running
  <2>2. \A q \in Requests : q # r => (Buffered(q)' <=> Buffered(q)) /\ (Made(q)' <=> Made(q))
    BY <1>0, <1>t, <1>w DEF Buffered, Made, Script, Writes
  <2>3. /\ Buffered(r) => Buffered(r)' \/ Made(r)'
        /\ r \in aio' => Buffered(r)' 
        /\ ~Buffered(r) => (~Buffered(r)' /\ (Made(r)' <=> Made(r)))
        /\ aio' \subseteq aio \cup {r}
    <3>1. pos'[r] = n /\ pos[r] \in Int /\ Len(Script(r)) \in Nat
      BY <1>w, <1>t DEF Writes
    <3>2. site' = site /\ Len(Script(r))' = Len(Script(r)) /\ site.kind[r]' = site.kind[r]
      BY <1>0
    <3>3. CASE Buffered(r)
      <4>1. /\ n = pos[r] + 1 /\ pos[r] >= 0
            /\ aio' = IF n < Len(Script(r)) THEN aio \cup {r} ELSE aio
        BY <1>f, <3>3 DEF Drains, Buffered
      <4>2. n <= Len(Script(r)) /\ site.kind[r] = "file"
        BY <1>w, <3>1, <3>3 DEF Writes, Buffered
      <4> QED BY <2>1, <3>1, <3>2, <4>1, <4>2 DEF Buffered, Made
    <3>4. CASE ~Buffered(r)
      <4>1. n = pos[r] /\ aio' = aio
        BY <1>f, <3>4 DEF Drains
      <4> QED BY <2>1, <3>1, <3>2, <3>4, <4>1 DEF Buffered, Made
    <3> QED BY <3>3, <3>4
  <2>4. call' \in {Call("written", r, "ok"), Call("finalize", r, "error")}
    BY <1>f, <1>x DEF Drains
  <2>5. Calls'
    BY <1>0, <1>c, <1>n, <1>r, <1>t, <1>f, <2>1, <2>2, <2>3, <2>4, SMTT(60) DEF Drains, Groups, Calls,
       Handlers, On, Ending, Running, Call, Return
  <2>6. Handlers'
    <3>3. call'.r = r /\ call'.fn \in {"written", "finalize"}
      BY <2>4 DEF Call
    <3>4. call.fn = "flush" /\ handler[Main] # "finalizer"
      BY <1>f DEF Drains, Running, Groups, Handlers
    <3>5. upstream' = upstream
      BY <1>c, <2>1
    <3>7. /\ upstream' \subseteq {q \in Live : handler[q] = "upstream" /\ site.kind[q] = "proxy"}
          /\ aio' \subseteq {q \in Live : Buffered(q)'}
      <4>1. upstream \subseteq {q \in Live : handler[q] = "upstream" /\ site.kind[q] = "proxy"}
        BY <1>x DEF Groups, Handlers
      <4>2. aio \subseteq {q \in Live : Buffered(q)}
        BY <1>x DEF Groups, Handlers
      <4>3. ASSUME NEW q \in aio' PROVE q \in Live /\ Buffered(q)'
        <5>1. CASE q = r
          BY <5>1, <1>r, <2>3
        <5>2. CASE q # r
          <6>1. q \in aio
            BY <2>3, <5>2
          <6>2. q \in Live /\ Buffered(q) /\ q \in Requests
            BY <4>2, <6>1, <1>n
          <6> QED BY <2>2, <5>2, <6>2
        <5> QED BY <5>1, <5>2
      <4> QED BY <3>5, <4>1, <4>3
    <3>8. ASSUME NEW q \in Requests, handler[q] = "upstream" PROVE q \in upstream' \cup done \/ On(q, Ending)'
      BY <3>4, <3>5, <3>8 DEF Groups, Handlers, On, Ending
    <3>9. ASSUME NEW q \in Requests, handler[q] = "finalizer", q = active' PROVE q \in Range(posted')
      BY <1>0, <1>q, <3>4, <3>9 DEF Groups, Handlers, On, Ending
    <3>10. \A q \in Requests : ~(handler[q] = "phases" /\ site.kind[q] = "file")
      BY <3>4 DEF Groups, Handlers, On, Ending
    <3>11. handler[Main] \in {"writer", "empty"} => (Made(Main) \/ Buffered(Main))'
      BY <1>n, <2>2, <2>3 DEF Groups, Handlers
    <3> QED BY <1>0, <1>n, <2>1, <3>3, <3>4, <3>7, <3>8, <3>9, <3>10, <3>11
            DEF Groups, Handlers, On, Ending, Running
  <2>7. Finished'
    <3>1. \A q \in done : q \in Requests /\ q # r
      BY <1>r, <1>t
    <3>2. active' = active \/ active' \notin done
      BY <1>s, <1>x
    <3> QED BY <1>0, <1>r, <1>x, <2>2, <2>3, <3>1, <3>2 DEF Groups, Finished
  <2>8. Broken'
    BY <1>c, <1>r, <1>t, <2>1, <2>4 DEF Broken, Running, Call, Return
  <2> QED BY <2>5, <2>6, <2>7, <2>8 DEF Groups
<1> QED BY <1>w, <1>e, <1>f

(* A new subrequest. *)
LEMMA NewIs ==
    ASSUME Base, NEW r \in Requests, Subrequest(r)
    PROVE  /\ Script(r)[pos[r] + 1] \in Subs \ Live
           /\ Parent(Script(r)[pos[r] + 1]) = r
           /\ handler[Script(r)[pos[r] + 1]] = "handler"
<1> DEFINE s == Script(r)[pos[r] + 1]
<1>1. s \in Subs /\ pos[r] # Len(Script(r)) /\ pos[r] >= 0
  BY DEF Subrequest, Made, Base, Started
<1>2. /\ pos[r] \in Int /\ pos[r] <= Len(Script(r)) /\ Len(Script(r)) \in Nat
      /\ \A p \in Requests : pos[p] \in Int /\ pos[p] <= Len(Script(p)) /\ Len(Script(p)) \in Nat
      /\ site \in Sites
  BY Typed DEF Base, TypeOK
<1>3. \A p \in Requests : DOMAIN Script(p) = 1..Len(Script(p))
  BY <1>2, SiteType
<1>4. pos[r] + 1 \in DOMAIN Script(r)
  BY <1>1, <1>2, <1>3
<1>5. s \notin Live
  <2> SUFFICES ASSUME s \in Live PROVE FALSE
    OBVIOUS
  <2>1. PICK p \in Requests : \E i \in 1..pos[p] : Script(p)[i] = s
    BY <1>1, LiveIs DEF Base, Placed
  <2>2. PICK i \in 1..pos[p] : Script(p)[i] = s
    BY <2>1
  <2>3. i \in DOMAIN Script(p) /\ pos[p] \in Int /\ i <= pos[p]
    BY <1>2, <1>3, <2>2
  <2>4. p = r /\ i = pos[r] + 1
    BY <1>1, <1>2, <1>4, <2>2, <2>3, SiteType
  <2> QED BY <1>2, <2>3, <2>4
<1>6. Parent(s) = r
  BY <1>1, <1>2, <1>4, ParentIs
<1> QED BY <1>1, <1>5, <1>6, Names DEF Base, Started

(* The groups are kept by a new subrequest. *)
LEMMA GroupsSubrequest ==
    ASSUME Base, Base', Groups, NEW r \in Requests, Subrequest(r)
    PROVE  Groups'
<1> DEFINE s == Script(r)[pos[r] + 1]
<1>t. /\ handler \in [Requests -> HandlerTypes] /\ reader \in [Requests -> ReaderTypes]
      /\ pos \in [Requests -> Int] /\ postponed \in [Requests -> Seq(Items)]
      /\ \A q \in Requests : /\ site.kind[q] \in Kinds /\ pos[q] >= NotStarted
                             /\ Len(Script(q)) \in Nat /\ pos[q] <= Len(Script(q))
      /\ upstream \subseteq Requests /\ aio \subseteq Requests /\ done \subseteq Requests
      /\ posted \in Seq(Requests) /\ call.r \in Live
  BY Typed, BaseTyped DEF Subrequest, Running, Fn
<1>n. /\ active \in Requests /\ active \in Live /\ Main \in Requests /\ Live \subseteq Requests
      /\ s # Main
  BY LiveIs, BaseTyped, NewIs, Names
<1>s. /\ s \in Subs /\ s \in Requests /\ s \notin Live /\ handler[s] = "handler"
      /\ Live' = Live \cup {s}
  BY NewIs, BaseSubrequest, Names
<1>a. /\ pos' = [pos EXCEPT ![r] = pos[r] + 1] /\ reader' = [reader EXCEPT ![s] = "empty"]
      /\ active' \in {s, active}
      /\ postponed' = [postponed EXCEPT ![r] = Append(postponed[r], s)]
      /\ posted' = Append(posted, s)
      /\ call' \in {Call("content", r, "ok")} \cup (IF site.kind[r] = "proxy" THEN {Return} ELSE {})
      /\ UNCHANGED <<site, handler, upstream, done, aio, client, out, freed, torn, astray, again, alert>>
      /\ Running("content") /\ call.r = r
  BY DEF Subrequest, Posts, Proceed
<1> HIDE DEF s
<1>1. /\ r \notin done /\ r \in Live /\ ~client.error /\ ~client.timedout
      /\ \/ site.kind[r] = "page" /\ handler[r] = "phases"
         \/ site.kind[r] = "proxy" /\ r \in upstream
  BY <1>a, <1>t DEF Groups, Calls, Broken, Running
<1>2. Main \notin done /\ s \notin done /\ r # s
  <2>1. Main \in done => r = Main \/ r \in Unfinished
    BY <1>1, UnfinishedIs, Names
  <2> QED BY <1>s, <1>1, <2>1 DEF Groups, Finished
<1>3. \A q \in Requests : Buffered(q)' <=> Buffered(q)
  BY <1>a, <1>t, <1>1 DEF Buffered, Made, Script
<1>4. \A q \in Requests : q # r => (Made(q)' <=> Made(q))
  BY <1>a, <1>t DEF Made, Script
<1>5. Range(posted') = Range(posted) \cup {s}
  BY <1>a, <1>t, <1>s, RangeAppend
<1>c. call' = Call("content", r, "ok") \/ (call' = Return /\ site.kind[r] = "proxy")
  BY <1>a
<1>6. Calls'
  BY <1>a, <1>c, <1>t, <1>1, <1>3, SMTT(60) DEF Groups, Calls, Handlers, On, Ending, Running, Call, Return
<1>7. Handlers'
  <2>1. /\ upstream' \subseteq {q \in Live' : handler'[q] = "upstream" /\ site'.kind[q] = "proxy"}
        /\ aio' \subseteq {q \in Live' : Buffered(q)'}
    BY <1>a, <1>n, <1>s, <1>3 DEF Groups, Handlers
  <2>2. handler[Main] \in {"writer", "empty"} => r # Main
    BY <1>n, <1>1 DEF Groups, Handlers
  <2>3. /\ handler' = handler /\ \A q \in Requests : q # s => reader'[q] = reader[q]
        /\ call'.fn \notin {"finalize", "terminate", "connection", "close"}
        /\ call.fn = "content"
        /\ reader'[s] = "empty"
        /\ active' = active \/ active' = s
        /\ UNCHANGED <<site, upstream, done>>
    BY <1>a, <1>c, <1>t, <1>s DEF Call, Return, Running
  <2> QED BY <1>n, <1>s, <1>3, <1>4, <1>5, <2>1, <2>2, <2>3 DEF Groups, Handlers, On, Ending,
             Running
<1>8. Finished'
  BY <1>a, <1>t, <1>1, <1>2, <1>3, <1>s DEF Groups, Finished
<1>9. Broken'
  BY <1>a, <1>c, <1>1 DEF Broken, Running, Call, Return
<1> QED BY <1>6, <1>7, <1>8, <1>9 DEF Groups

(* The groups are kept when a request is finalized, but for the main one. *)
LEMMA GroupsFinalize ==
    ASSUME Base, Base', Live' = Live, Groups, Ancestry, NEW r \in Requests,
           Written(r) \/ FinalizeError(r) \/ FinalizeLater(r) \/ FinalizeEarly(r) \/ FinalizeActive(r)
    PROVE  Groups'
<1>t. /\ handler \in [Requests -> HandlerTypes] /\ reader \in [Requests -> ReaderTypes]
      /\ postponed \in [Requests -> Seq(Items)]
      /\ \A q \in Requests : site.kind[q] \in Kinds
      /\ upstream \subseteq Requests /\ aio \subseteq Requests /\ done \subseteq Requests
      /\ posted \in Seq(Requests) /\ call.r \in Live
  BY Typed, BaseTyped DEF Written, FinalizeError, FinalizeLater, FinalizeEarly, FinalizeActive,
     Finalizes, Running, Fn
<1>n. /\ active \in Requests /\ active \in Live /\ Main \in Requests /\ Live \subseteq Requests
      /\ Main \notin Subs
  BY LiveIs, BaseTyped, Names
<1>c. /\ call.r = r /\ r \in Live
      /\ \/ call.fn = "written"
         \/ call.fn = "finalize" /\ (call.rc \in {"error", "timeout", "closed"} \/ (call.rc = "ok" /\ ~client.error))
  <2>0. client.error => (call.fn = "finalize" /\ call.rc \in {"error", "closed"}) \/ call.fn = "terminate"
    BY DEF Groups, Broken, Running
  <2>1. CASE Written(r)
    <3>1. call.fn = "written" /\ call.r = r
      BY <2>1 DEF Written, Running
    <3>2. call.r \in Live
      BY <1>t
    <3>3. r \in Live
      BY <3>1, <3>2
    <3> QED BY <3>1, <3>3
  <2>2. CASE FinalizeError(r)
    BY <1>t, <2>0, <2>2 DEF FinalizeError, Finalizes, Running, Failed
  <2>3. CASE FinalizeLater(r) \/ FinalizeEarly(r) \/ FinalizeActive(r)
    <3>1. Finalizes(r) /\ call.rc = "ok" /\ ~Failed
      BY <2>3 DEF FinalizeLater, FinalizeEarly, FinalizeActive
    <3> QED BY <1>t, <3>1 DEF Finalizes, Running, Failed
  <2> QED BY <2>1, <2>2, <2>3
<1>0. UNCHANGED <<site, pos, upstream, aio, client, again>>
  BY DEF Written, FinalizeError, FinalizeLater, FinalizeEarly, FinalizeActive, body
<1>b. \A q \in Requests : (Buffered(q)' <=> Buffered(q)) /\ (Made(q)' <=> Made(q))
  BY <1>0 DEF Buffered, Made, Script
<1>m. Main \in done => r = Main \/ r \in done
  <2>1. r = Main \/ r \in done \/ r \in Unfinished
    BY <1>n, <1>c, UnfinishedIs, Names
  <2> QED BY <2>1 DEF Groups, Finished
<1>1. CASE Written(r)
  <2>0. call.fn = "written"
    BY <1>1 DEF Written, Running
  <2>1. r \notin done /\ handler[r] = "writer" /\ Main \notin done
    BY <1>c, <1>m, <2>0 DEF Groups, Calls
  <2>u. Unfinished' = Unfinished
    BY <1>1, UnfinishedIs DEF Written, body
  <2>2. Calls'
    BY <1>0, <1>1, <1>b, <1>c, <1>n, <1>t, <2>0, <2>1 DEF Written, Groups, Calls, Handlers, On,
       Ending, Running, Call, Return, body
  <2>3. Handlers'
    BY <1>0, <1>1, <1>b, <1>c, <1>n, <1>t, <2>0, <2>1 DEF Written, Groups, Calls, Handlers, On,
       Ending, Running, Call, Return, body
  <2>4. Finished'
    <3>1. \A q \in done : q # r /\ q \in Requests
      BY <1>t, <2>1
    <3> QED BY <1>0, <1>1, <1>b, <1>t, <2>1, <2>u, <3>1 DEF Written, Groups, Finished, body
  <2>5. Broken'
    BY <1>0, <1>1, <1>b, <1>c, <1>n, <1>t, <2>0, <2>1 DEF Written, Groups, Broken, Running,
       Call, Return, body
  <2> QED BY <2>2, <2>3, <2>4, <2>5 DEF Groups
<1>2. CASE FinalizeError(r)
  <2>0. /\ call.fn = "finalize" /\ call.rc \in {"error", "timeout", "closed"}
        /\ call' = Call("terminate", r, "ok") /\ (r \notin done \/ again) /\ r \notin upstream
        /\ (r = Main => Main \notin done)
    BY <1>2, <1>c DEF FinalizeError, Finalizes, Running, Failed, Groups, Calls, Ending
  <2>1. /\ UNCHANGED <<site, reader, postponed, done, active, posted>>
        /\ \A q \in Requests : handler'[q] # handler[q] => q = r /\ handler'[q] = "finalizer"
        /\ aio # {} => handler'[r] = "finalizer"
    BY <1>2, <1>t DEF FinalizeError, body, Blocked
  <2>u. Unfinished' = Unfinished
    BY <2>1, UnfinishedIs
  <2>2. Calls'
    BY <1>0, <1>b, <1>c, <1>n, <1>t, <2>0, <2>1 DEF Groups, Calls, Handlers, On, Ending,
       Running, Call, Return
  <2>3. Handlers'
    <3>1. \A q \in Requests : handler'[q] = handler[q] \/ (q = r /\ handler'[q] = "finalizer")
      BY <2>1
    <3>2. /\ upstream' \subseteq {q \in Live : handler'[q] = "upstream" /\ site.kind[q] = "proxy"}
          /\ aio' \subseteq {q \in Live : Buffered(q)'}
      BY <1>0, <1>b, <1>n, <2>0, <3>1 DEF Groups, Handlers
    <3>3. \A q \in Requests : On(q, Ending) <=> On(q, Ending)'
      BY <1>c, <2>0 DEF On, Ending, Call
    <3>4. handler'[Main] = "finalizer" => Running("terminate")'
      BY <2>0 DEF Running, Call
    <3>5. call.fn = "finalize" /\ call'.fn = "terminate" /\ On(r, Ending)
      BY <1>c, <2>0 DEF Call, On, Ending
    <3> QED BY <1>0, <1>b, <1>n, <1>t, <2>1, <3>1, <3>2, <3>3, <3>4, <3>5 DEF Groups, Handlers
  <2>4. Finished'
    <3>1. \A q \in done : q \in Requests
      BY <1>t
    <3>2. Main \in done => call.fn = "finalize" /\ reader[Main] = "linger" /\ Main # r
      BY <2>0 DEF Groups, Finished
    <3> QED BY <1>0, <1>b, <1>t, <1>n, <2>0, <2>1, <2>u, <3>1, <3>2 DEF Groups, Finished
  <2>5. Broken'
    BY <1>0, <1>b, <1>c, <1>n, <1>t, <2>0, <2>1 DEF Groups, Broken, Running, Call, Return
  <2> QED BY <2>2, <2>3, <2>4, <2>5 DEF Groups
<1>3. CASE FinalizeLater(r)
  <2>0. call.fn = "finalize" /\ call.rc = "ok" /\ call' = Return /\ Pending(r) /\ ~client.error
    BY <1>3 DEF FinalizeLater, Finalizes, Running, Failed
  <2>1. r \notin done /\ r \notin upstream /\ Main \notin done
    <3>1. r = Main => Main \notin done
      BY <1>c, <2>0 DEF Groups, Calls, Running
    <3>2. r # Main => r \notin done
      <4>1. r # Main => Buffered(r) \/ postponed[r] # <<>>
        BY <2>0 DEF Pending, Unsent
      <4> QED BY <4>1 DEF Groups, Finished
    <3> QED BY <1>c, <1>m, <2>0, <3>1, <3>2 DEF Groups, Calls, Ending
  <2>2. /\ UNCHANGED <<site, postponed, done, active, posted>>
        /\ handler' = [handler EXCEPT ![r] = "writer"]
        /\ reader' = [reader EXCEPT ![r] = "test"]
    BY <1>3 DEF FinalizeLater, body
  <2>u. Unfinished' = Unfinished
    BY <2>2, UnfinishedIs
  <2>3. Calls'
    BY <1>0, <1>b, <1>c, <1>n, <1>t, <2>0, <2>1, <2>2 DEF Groups, Calls, Handlers, On, Ending,
       Running, Call, Return
  <2>4. Handlers'
    BY <1>0, <1>b, <1>c, <1>n, <1>t, <2>0, <2>1, <2>2 DEF Groups, Calls, Handlers, On, Ending,
       Running, Call, Return
  <2>5. Finished'
    <3>1. \A q \in done : q # r /\ q \in Requests
      BY <1>t, <2>1
    <3> QED BY <1>0, <1>b, <1>t, <1>n, <2>0, <2>1, <2>2, <2>u, <3>1 DEF Groups, Finished
  <2>6. Broken'
    BY <1>0, <1>b, <1>c, <1>n, <1>t, <2>0, <2>1, <2>2 DEF Groups, Broken, Running, Call, Return
  <2> QED BY <2>3, <2>4, <2>5, <2>6 DEF Groups
<1>4. CASE FinalizeEarly(r)
  <2>0. /\ call.fn = "finalize" /\ call.rc = "ok" /\ call' = Return /\ ~Pending(r)
        /\ ~client.error /\ r # active /\ r \in Subs
    BY <1>4 DEF FinalizeEarly, Finalizes, Running, Failed
  <2>2. /\ UNCHANGED <<site, postponed, done, active, reader>>
        /\ handler' = [handler EXCEPT ![r] = "finalizer"] /\ posted' = Append(posted, Parent(r))
    BY <1>4 DEF FinalizeEarly, body, Posts
  <2>p. \A q \in Range(posted) : q \in Range(posted')
    <3>1. Parent(r) \in Requests
      BY <1>c, <2>0, ParentLives, LiveIs
    <3> QED BY <1>t, <2>2, <3>1, RangeAppend
  <2>u. Unfinished' = Unfinished
    BY <2>2, UnfinishedIs
  <2>3. Calls'
    BY <1>0, <1>b, <1>c, <1>n, <1>t, <2>0, <2>2 DEF Groups, Calls, Handlers, On, Ending,
       Running, Call, Return
  <2>4. Handlers'
    <3>1. r \notin upstream
      BY <1>c, <2>0 DEF Groups, Calls, Ending
    <3> QED BY <1>0, <1>b, <1>c, <1>n, <1>t, <2>0, <2>2, <2>p, <3>1 DEF Groups, Calls, Handlers,
               On, Ending, Running, Call, Return
  <2>5. Finished'
    <3>1. \A q \in done : q \in Requests
      BY <1>t
    <3> QED BY <1>0, <1>b, <1>t, <1>n, <2>0, <2>2, <2>u, <3>1 DEF Groups, Finished
  <2>6. Broken'
    BY <1>0, <1>b, <1>c, <1>n, <1>t, <2>0, <2>2 DEF Groups, Broken, Running, Call, Return
  <2> QED BY <2>3, <2>4, <2>5, <2>6 DEF Groups
<1>5. CASE FinalizeActive(r)
  <2>0. /\ call.fn = "finalize" /\ call.rc = "ok" /\ call' = Return /\ ~Pending(r)
        /\ ~client.error /\ r = active /\ r \in Subs
    BY <1>5 DEF FinalizeActive, Finalizes, Running, Failed
  <2> DEFINE p == Parent(r)
  <2>p. p \in Live /\ p \in Requests
    BY <1>c, <2>0, ParentLives, LiveIs
  <2>1. /\ r \notin done /\ r \notin upstream /\ r \notin aio /\ Main \notin done
        /\ ~Buffered(r)
        /\ postponed[r] = <<>> /\ handler[r] \in {"phases", "upstream", "empty", "finalizer"}
    <3>1. r \notin done
      BY <1>n, <2>0 DEF Groups, Finished
    <3>2. ~Buffered(r) /\ postponed[r] = <<>>
      BY <2>0 DEF Pending, Unsent
    <3>3. r \notin aio
      BY <3>2 DEF Groups, Handlers
    <3>4. r \notin upstream /\ handler[r] \in {"phases", "upstream", "empty", "finalizer"}
      BY <1>c, <2>0 DEF Groups, Calls, Ending, Running
    <3> QED BY <1>m, <1>n, <2>0, <3>1, <3>2, <3>3, <3>4
  <2>2. /\ UNCHANGED <<site, reader, handler>> /\ done' = done \cup {r} /\ active' = p
        /\ posted' = Append(posted, p)
        /\ postponed' = [postponed EXCEPT ![p] = DropFirst(postponed[p], r)]
    BY <1>5 DEF FinalizeActive, Posts
  <2>a. p # r /\ p \notin done
    <3>1. r \in Unfinished
      BY <1>c, <2>0, <2>1, UnfinishedIs
    <3>2. \E q \in {r} : Parent(q) \notin {r}
      <4>1. {r} \in SUBSET (Live \cap Subs) /\ {r} # {}
        BY <1>c, <2>0
      <4> QED BY <4>1 DEF Ancestry
    <3> QED BY <3>1, <3>2 DEF Ancestry
  <2> HIDE DEF p
  <2>q. Range(posted') = Range(posted) \cup {p}
    BY <1>t, <2>2, <2>p, RangeAppend
  <2>3. Calls'
    BY <1>0, <1>b, <1>c, <1>n, <1>t, <2>0, <2>1, <2>2 DEF Groups, Calls, Handlers, On, Ending,
       Running, Call, Return
  <2>4. Handlers'
    BY <1>0, <1>b, <1>c, <1>n, <1>t, <2>0, <2>1, <2>2, <2>q DEF Groups, Calls, Handlers, On,
       Ending, Running, Call, Return
  <2>5. Finished'
    <3>1. \A q \in done' : q # p /\ q \in Requests /\ postponed'[q] = postponed[q]
      BY <1>t, <2>1, <2>2, <2>a, <1>c, <1>n
    <3>2. Main \notin done'
      BY <1>n, <2>0, <2>1, <2>2
    <3> QED BY <1>0, <1>b, <1>t, <1>n, <2>0, <2>1, <2>2, <3>1, <3>2 DEF Groups, Finished
  <2>6. Broken'
    BY <1>0, <1>b, <1>c, <1>n, <1>t, <2>0, <2>1, <2>2 DEF Groups, Broken, Running, Call, Return
  <2> QED BY <2>3, <2>4, <2>5, <2>6 DEF Groups
<1> QED BY <1>1, <1>2, <1>3, <1>4, <1>5

(* When the main request is finalized with nothing left to send, it may      *)
(* send, no subrequest is unfinished and no file is being read.              *)
LEMMA MainIsLast ==
    ASSUME Base, Calls, Finished, Tree, FinalizeMain
    PROVE  /\ active = Main /\ Main \notin done /\ Unfinished = {} /\ aio = {}
           /\ postponed[Main] = <<>> /\ ~Buffered(Main) /\ Made(Main)
<1>1. /\ call.fn = "finalize" /\ call.r = Main /\ call.rc = "ok" /\ Main \in Requests
  BY Names DEF FinalizeMain, Finalizes, Running
<1>2. ~Buffered(Main) /\ postponed[Main] = <<>> /\ aio = {}
  BY DEF FinalizeMain, Pending, Unsent, Blocked
<1>3. Main \notin done /\ Made(Main)
  BY <1>1, <1>2 DEF Calls, Running
<1>4. pos[Main] >= 1 /\ Script(Main)[pos[Main]] = Data
  <2>1. /\ pos[Main] = Len(Script(Main)) /\ Script(Main) # <<>>
        /\ Script(Main) \in Seq(Subs \cup {Data})
        /\ Script(Main)[Len(Script(Main))] = Data
    BY <1>1, <1>3, SiteType DEF Made, Base, TypeOK
  <2>2. Len(Script(Main)) >= 1
    BY <2>1
  <2> QED BY <2>1, <2>2
<1>5. active = Main
  BY <1>2, <1>3, <1>4 DEF Tree, LastData
<1>6. Unfinished = {}
  <2> SUFFICES ASSUME Unfinished # {} PROVE FALSE
    OBVIOUS
  <2>1. Unfinished \in SUBSET (Live \cap Subs)
    BY UnfinishedIs
  <2>2. PICK s \in Unfinished : Parent(s) \notin Unfinished
    BY <2>1 DEF Tree, Ancestry
  <2>3. s \in Live /\ s \in Subs /\ Parent(s) \in Live /\ Parent(s) \notin done
    <3>1. s \in Live \cap Subs
      BY <2>1
    <3> QED BY <3>1, ParentLives DEF Tree, Ancestry
  <2>4. Parent(s) = Main
    BY <2>2, <2>3, UnfinishedIs, LiveIs, Names
  <2>5. PICK path \in SUBSET Requests : Lead(path)
    BY DEF Tree
  <2>6. CASE s \in path
    <3>1. s # Main
      BY <2>3, Names
    <3> QED BY <1>5, <2>4, <2>5, <2>6, <3>1 DEF Lead
  <2>7. CASE s \notin path
    <3>1. s \in Range(postponed[Main])
      BY <2>4, <2>5, <2>7 DEF Lead
    <3>2. postponed[Main] = <<>> => Range(postponed[Main]) = {}
      BY DEF Range
    <3> QED BY <1>2, <3>1, <3>2
  <2> QED BY <2>6, <2>7
<1> QED BY <1>2, <1>3, <1>5, <1>6

(* The groups are kept when the main request is finalized. *)
LEMMA GroupsMain ==
    ASSUME Base, Base', Live' = Live, Groups, Tree, FinalizeMain
    PROVE  Groups'
<1>t. /\ handler \in [Requests -> HandlerTypes] /\ reader \in [Requests -> ReaderTypes]
      /\ \A q \in Requests : site.kind[q] \in Kinds
      /\ upstream \subseteq Requests /\ aio \subseteq Requests /\ done \subseteq Requests
      /\ Main \in Requests /\ Main \in Live /\ active \in Requests
  BY Typed, BaseTyped, LiveIs, Names
<1>l. /\ active = Main /\ Main \notin done /\ Unfinished = {} /\ aio = {}
      /\ postponed[Main] = <<>> /\ ~Buffered(Main) /\ Made(Main)
  BY MainIsLast DEF Groups
<1>0. /\ call.fn = "finalize" /\ call.rc = "ok" /\ call.r = Main /\ ~client.error
      /\ call' = Call("connection", Main, "ok")
      /\ done' = done \cup {Main} /\ handler' = [handler EXCEPT ![Main] = "empty"]
      /\ UNCHANGED <<site, reader, postponed, pos, upstream, active, posted, aio, client, again>>
  BY <1>l DEF FinalizeMain, Finalizes, Running, Failed
<1>b. \A q \in Requests : (Buffered(q)' <=> Buffered(q)) /\ (Made(q)' <=> Made(q))
  BY <1>0 DEF Buffered, Made, Script
<1>u. Unfinished' = {}
  BY <1>0, <1>l, UnfinishedIs
<1>m. Main \notin upstream
  BY <1>0 DEF Groups, Calls, Ending
<1>1. Calls'
  BY <1>0, <1>b, <1>l, <1>t DEF Groups, Calls, Handlers, On, Ending, Running, Call, Return
<1>2. Handlers'
  BY <1>0, <1>b, <1>l, <1>t, <1>m DEF Groups, Calls, Handlers, On, Ending, Running, Call, Return
<1>3. Finished'
  BY <1>0, <1>b, <1>l, <1>t, <1>m, <1>u DEF Groups, Finished, Call
<1>4. Broken'
  BY <1>0, <1>l, <1>t DEF Groups, Broken, Running, Call
<1> QED BY <1>1, <1>2, <1>3, <1>4 DEF Groups

(* The groups are kept when the connection is finalized. *)
LEMMA GroupsConnection ==
    ASSUME Base, Base', Live' = Live, Groups, FinalizeConnection, ~freed, ~freed'
    PROVE  Groups'
<1>t. /\ handler \in [Requests -> HandlerTypes] /\ reader \in [Requests -> ReaderTypes]
      /\ \A q \in Requests : site.kind[q] \in Kinds
      /\ upstream \subseteq Requests /\ aio \subseteq Requests /\ done \subseteq Requests
      /\ Main \in Requests /\ Main \in Live /\ active \in Requests
  BY Typed, BaseTyped, LiveIs, Names
<1>0. /\ call.fn = "connection" /\ Main \in done
      /\ \/ call' = Call("close", Main, "ok") /\ reader' = reader
         \/ call' = Return /\ reader' = [reader EXCEPT ![Main] = "linger"]
      /\ UNCHANGED <<site, handler, postponed, pos, upstream, done, active, posted, aio, client, again>>
  BY DEF FinalizeConnection, Running, Groups, Calls
<1>b. \A q \in Requests : (Buffered(q)' <=> Buffered(q)) /\ (Made(q)' <=> Made(q))
  BY <1>0 DEF Buffered, Made, Script
<1>r. \A q \in Requests : q # Main => reader'[q] = reader[q]
  BY <1>0, <1>t
<1>m. /\ handler[Main] = "empty" /\ active = Main /\ aio = {} /\ Main \notin upstream
      /\ Unfinished = {}
  BY <1>0 DEF Groups, Finished
<1>u. Unfinished' = {}
  BY <1>0, <1>m, UnfinishedIs
<1>1. Calls'
  BY <1>0, <1>b, <1>m, <1>t DEF Groups, Calls, Handlers, On, Ending, Running, Call, Return
<1>2. Handlers'
  <2>0. reader'[Main] # "broken" \/ call'.fn = "close"
    BY <1>0, <1>t DEF Call
  <2>1. Main \in done => handler[Main] # "writer"
    BY <1>m
  <2> QED BY <1>0, <1>b, <1>m, <1>r, <1>t, <2>0, <2>1 DEF Groups, Calls, Handlers, On, Ending,
             Running, Call, Return
<1>3. Finished'
  <2>1. call'.fn = "close" \/ reader'[Main] = "linger"
    BY <1>0, <1>t DEF Call
  <2> QED BY <1>0, <1>b, <1>m, <1>t, <1>u, <2>1 DEF Groups, Finished
<1>4. Broken'
  BY <1>0, <1>t DEF Groups, Broken, Running, Call, Return
<1> QED BY <1>1, <1>2, <1>3, <1>4 DEF Groups

-----------------------------------------------------------------------------
(* The tree *)

(* Who is whose parent depends on the responses alone. *)
LEMMA ParentStays ==
    ASSUME site' = site
    PROVE  /\ \A s : Parent(s)' = Parent(s)
           /\ \A p : Script(p)' = Script(p)
  BY DEF Parent, Script

(* What is in a list. *)
LEMMA Listed ==
    ASSUME Base, NEW p \in Requests, NEW i \in DOMAIN postponed[p], postponed[p][i] \in Subs
    PROVE  /\ postponed[p][i] \in Live /\ postponed[p][i] # Main
           /\ Parent(postponed[p][i]) = p
<1>1. postponed[p][i] \in Live /\ postponed[p][i] \in Range(Script(p))
  BY DEF Base, Mentioned
<1>2. PICK j \in DOMAIN Script(p) : Script(p)[j] = postponed[p][i]
  BY <1>1 DEF Range
<1> QED BY <1>1, <1>2, ParentIs, Names DEF Base, TypeOK

(* A step that leaves lists, turns and ends alone. *)
LEMMA TreeStays ==
    ASSUME Tree, Live' = Live, UNCHANGED <<site, postponed, done, active>>,
           pos'[Main] \in {pos[Main], 0}
    PROVE  Tree'
<1>1. Unfinished' = Unfinished /\ Undone' = Undone
  BY UnfinishedIs DEF Undone
<1>2. \E path \in SUBSET Requests : Lead(path)'
  <2>1. PICK path \in SUBSET Requests : Lead(path)
    BY DEF Tree
  <2>2. Lead(path)'
    BY <1>1, <2>1, ParentStays DEF Lead
  <2> QED BY <2>2
<1>3. Lists'
  BY DEF Tree, Lists
<1>4. LastData'
  BY ParentStays DEF Tree, LastData
<1>5. Ancestry'
  BY <1>1, ParentStays DEF Tree, Ancestry
<1> QED BY <1>2, <1>3, <1>4, <1>5 DEF Tree

(* The tree is kept when the main request is finalized. *)
LEMMA TreeMain ==
    ASSUME Base, Calls, Finished, Tree, FinalizeMain
    PROVE  Tree'
<1>1. /\ active = Main /\ Main \notin done /\ Unfinished = {} /\ postponed[Main] = <<>>
  BY MainIsLast
<1>2. done' = done \cup {Main} /\ UNCHANGED <<site, postponed, active, reader, pos>>
  BY <1>1 DEF FinalizeMain
<1>3. Unfinished' = {} /\ Live' = Live
  BY <1>1, <1>2, UnfinishedIs DEF Live
<1>4. \E path \in SUBSET Requests : Lead(path)'
  <2>1. PICK path \in SUBSET Requests : Lead(path)
    BY DEF Tree
  <2>2. path \subseteq Undone' \cup {Main}
    BY <1>2, <1>3, <2>1 DEF Lead, Undone
  <2>3. Lead(path)'
    BY <1>1, <1>2, <1>3, <2>1, <2>2, ParentStays DEF Lead
  <2> QED BY <2>3
<1>5. Lists'
  <2>1. \A q \in Requests : \A i \in DOMAIN postponed[q] : postponed[q][i] # Main \/ postponed[q][i] \notin Subs
    BY Names
  <2> QED BY <1>2, <2>1 DEF Tree, Lists
<1>6. LastData'
  BY <1>2 DEF LastData
<1>7. Ancestry'
  BY <1>2, <1>3, ParentStays DEF Tree, Ancestry
<1> QED BY <1>4, <1>5, <1>6, <1>7 DEF Tree

(* What is dropped from a list when its first request is done. *)
LEMMA DropIs ==
    ASSUME NEW S, NEW list \in Seq(S), NEW r
    PROVE  \/ DropFirst(list, r) = list /\ (list # <<>> => list[1] # r)
           \/ /\ list # <<>> /\ list[1] = r /\ DropFirst(list, r) = Tail(list)
              /\ Len(list) \in Nat \ {0} /\ DOMAIN list = 1..Len(list)
              /\ Tail(list) \in Seq(S) /\ Len(Tail(list)) = Len(list) - 1
              /\ \A i \in 1..Len(list) - 1 : Tail(list)[i] = list[i + 1]
<1>1. CASE list = <<>> \/ Head(list) # r
  BY <1>1 DEF DropFirst
<1>2. CASE list # <<>> /\ Head(list) = r
  BY <1>2, HeadTailProperties DEF DropFirst
<1> QED BY <1>1, <1>2

(* When the request that may send is done, its parent may: the path gets shorter. *)
LEMMA TreeActive ==
    ASSUME Base, Live' = Live, Finished, Tree, NEW r \in Requests, FinalizeActive(r)
    PROVE  Tree'
<1> DEFINE p == Parent(r)
<1>1. /\ r \in Subs /\ r = active /\ postponed[r] = <<>> /\ r \in Live /\ r # Main
  BY BaseTyped, Names DEF FinalizeActive, Pending, Unsent
<1>2. /\ done' = done \cup {r} /\ active' = p
      /\ postponed' = [postponed EXCEPT ![p] = DropFirst(postponed[p], r)]
      /\ UNCHANGED <<site, reader, pos>>
  BY DEF FinalizeActive
<1>3. r \notin done /\ r \in Unfinished
  BY <1>1, UnfinishedIs DEF Finished
<1>4. p \in Live /\ p \in Requests /\ p # r /\ p \notin done
  <2>1. p \in Live /\ p \in Requests /\ p \notin done
    BY <1>1, <1>3, ParentLives, LiveIs DEF Tree, Ancestry
  <2>2. {r} \in SUBSET (Live \cap Subs) /\ {r} # {}
    BY <1>1
  <2>3. \E q \in {r} : Parent(q) \notin {r}
    BY <2>2 DEF Tree, Ancestry
  <2> QED BY <2>1, <2>3
<1>5. PICK path \in SUBSET Requests : Lead(path)
  BY DEF Tree
<1> DEFINE list == postponed[p]
           new == DropFirst(list, r)
<1>t. postponed \in [Requests -> Seq(Items)] /\ list \in Seq(Items)
  BY <1>4, Typed
<1>d. \/ new = list /\ (list # <<>> => list[1] # r)
      \/ /\ list # <<>> /\ list[1] = r /\ new = Tail(list)
         /\ Len(list) \in Nat \ {0} /\ DOMAIN list = 1..Len(list)
         /\ Tail(list) \in Seq(Items) /\ Len(Tail(list)) = Len(list) - 1
         /\ \A i \in 1..Len(list) - 1 : Tail(list)[i] = list[i + 1]
  BY <1>t, DropIs
<1>p. /\ postponed'[p] = new /\ new \in Seq(Items)
      /\ \A q \in Requests : q # p => postponed'[q] = postponed[q]
  <2>1. new \in Seq(Items)
    BY <1>t, <1>d
  <2> QED BY <1>2, <1>4, <1>t, <2>1
<1> HIDE DEF new, list, p
<1>6. \A i \in DOMAIN new : new[i] \in Range(list) /\ \E j \in DOMAIN list : new[i] = list[j] /\ j >= i
  <2>1. CASE new = list
    <3>1. \A i \in DOMAIN list : i \in Int /\ i >= i
      BY <1>t DEF list
    <3> QED BY <2>1, <3>1 DEF Range
  <2>2. CASE new # list
    <3>1. DOMAIN new = 1..Len(list) - 1
      BY <1>d, <2>2
    <3>2. \A i \in DOMAIN new : i + 1 \in DOMAIN list /\ new[i] = list[i + 1] /\ i + 1 >= i
      BY <1>d, <2>2, <3>1
    <3> QED BY <3>2 DEF Range
  <2> QED BY <2>1, <2>2
<1>7. Range(list) \ {r} \subseteq Range(new)
  <2>1. CASE new = list
    BY <2>1
  <2>2. CASE new # list
    <3> SUFFICES ASSUME NEW x \in Range(list), x # r PROVE x \in Range(new)
      OBVIOUS
    <3>1. PICK i \in DOMAIN list : list[i] = x
      BY DEF Range
    <3>2. i \in 2..Len(list)
      BY <1>d, <2>2, <3>1
    <3>3. i - 1 \in 1..Len(list) - 1 /\ Tail(list)[i - 1] = list[(i - 1) + 1]
      BY <1>d, <2>2, <3>2
    <3>4. i - 1 \in DOMAIN new /\ new[i - 1] = list[i]
      BY <1>d, <2>2, <3>2, <3>3
    <3> QED BY <3>1, <3>4 DEF Range
  <2> QED BY <2>1, <2>2
<1>8. /\ \A i \in DOMAIN new : new[i] # r
      /\ \A i \in DOMAIN new : new[i] \in path \ {Main} => i = 1
  <2>0. r \in path \ {Main} /\ \A i \in DOMAIN list : list[i] \in path \ {Main} => i = 1
    BY <1>1, <1>4, <1>5 DEF Lead, list
  <2>1. CASE new = list
    BY <1>d, <2>0, <2>1
  <2>2. CASE new # list
    <3>1. \A i \in DOMAIN new : i + 1 \in DOMAIN list /\ new[i] = list[i + 1] /\ i \in Int /\ i >= 1
      BY <1>d, <2>2
    <3> QED BY <2>0, <3>1
  <2> QED BY <2>1, <2>2
<1>u. Unfinished' = Unfinished \ {r}
  BY <1>2, UnfinishedIs
<1>o. \A s \in Unfinished : Parent(s) # r
  <2> SUFFICES ASSUME NEW s \in Unfinished, Parent(s) = r PROVE FALSE
    OBVIOUS
  <2>1. s # Main
    BY Names DEF Unfinished
  <2>2. s \notin path
    BY <1>1, <1>5, <2>1 DEF Lead
  <2>3. s \in Range(postponed[r])
    BY <1>5, <2>2 DEF Lead
  <2> QED BY <1>1, <2>3 DEF Range
<1>9. Lead(path \ {r})'
  <2> DEFINE trail == path \ {r}
  <2>1. trail \subseteq Undone' \cup {Main} /\ Main \in trail /\ active' \in trail
    BY <1>1, <1>2, <1>5 DEF Lead, Undone, p
  <2>2. \A s \in trail \ {Main} : Parent(s) \in trail \ {p}
    BY <1>1, <1>5 DEF Lead, p
  <2>3. \A q \in trail \ {p} : \E s \in trail \ {Main} : Parent(s) = q
    BY <1>1, <1>5 DEF Lead, p
  <2>4. \A s \in Unfinished' \ trail : s \in Range(postponed'[Parent(s)])
    <3> TAKE s \in Unfinished' \ trail
    <3>1. s \in Unfinished /\ s \notin path /\ s # r
      BY <1>u
    <3>2. s \in Range(postponed[Parent(s)])
      BY <1>5, <3>1 DEF Lead
    <3>3. Parent(s) \in Requests
      BY <3>1, ParentLives, LiveIs, UnfinishedIs
    <3> QED BY <1>7, <1>p, <3>1, <3>2, <3>3 DEF list
  <2>5. \A q \in Requests : \A i \in DOMAIN postponed'[q] : postponed'[q][i] \in trail \ {Main} => i = 1
    BY <1>5, <1>8, <1>p DEF Lead
  <2>6. \A s, t \in trail \ {Main} : Parent(s) = Parent(t) => s = t
    BY <1>5 DEF Lead
  <2> HIDE DEF trail
  <2>7. Lead(trail)'
    BY <1>2, <2>1, <2>2, <2>3, <2>4, <2>5, <2>6, ParentStays DEF Lead
  <2> QED BY <2>7 DEF trail
<1>10. Lists'
  <2>1. \A q \in Requests : q # p => \A i \in DOMAIN postponed[q] : postponed[q][i] # r
    BY <1>1, Listed DEF p
  <2>2. \A i \in DOMAIN new : new[i] \in Subs => new[i] \notin done
    BY <1>4, <1>6 DEF Tree, Lists, list
  <2>3. \A i, j \in DOMAIN new : (new[i] \in Subs /\ new[i] = new[j]) => i = j
    <3>1. \A i, j \in DOMAIN list : (list[i] \in Subs /\ list[i] = list[j]) => i = j
      BY <1>4 DEF Tree, Lists, list
    <3>2. CASE new = list
      BY <3>1, <3>2
    <3>3. CASE new # list
      <4>1. \A i \in DOMAIN new : i + 1 \in DOMAIN list /\ new[i] = list[i + 1] /\ i \in Int
        BY <1>d, <3>3
      <4> QED BY <3>1, <4>1
    <3> QED BY <3>2, <3>3
  <2> QED BY <1>2, <1>8, <1>p, <2>1, <2>2, <2>3 DEF Tree, Lists
<1>11. LastData'
  <2> SUFFICES ASSUME Main \notin done, pos[Main] >= 1, Script(Main)[pos[Main]] = Data
               PROVE  /\ postponed'[Main] # <<>> => postponed'[Main][Len(postponed'[Main])] \notin Subs
                      /\ p # Main => postponed'[Main] # <<>>
    BY <1>2, ParentStays DEF LastData
  <2>1. postponed[Main] # <<>> /\ postponed[Main][Len(postponed[Main])] \notin Subs
    BY <1>1 DEF Tree, LastData
  <2>2. CASE p # Main
    BY <1>p, <2>1, <2>2, Names
  <2>3. CASE p = Main
    <3>1. postponed'[Main] = new /\ list # <<>> /\ list[Len(list)] \notin Subs
      BY <1>p, <2>1, <2>3 DEF list
    <3>2. (new # list /\ new # <<>>) => new[Len(new)] = list[Len(list)]
      <4> SUFFICES ASSUME new # list, new # <<>> PROVE new[Len(new)] = list[Len(list)]
        OBVIOUS
      <4>1. Len(new) = Len(list) - 1 /\ new \in Seq(Items) /\ Len(list) \in Nat
        BY <1>d
      <4>2. Len(new) > 0
        BY <4>1
      <4>3. Len(list) - 1 \in 1..Len(list) - 1
        BY <4>1, <4>2
      <4> QED BY <1>d, <4>1, <4>3
    <3> QED BY <2>3, <3>1, <3>2
  <2> QED BY <2>2, <2>3
<1>12. Ancestry'
  BY <1>2, <1>u, <1>o, ParentStays DEF Tree, Ancestry
<1> QED BY <1>9, <1>10, <1>11, <1>12 DEF Tree

(* The path grows by the request that gets the right to send. *)
LEMMA PathGrows ==
    ASSUME Ancestry, NEW path \in SUBSET Requests, Lead(path),
           NEW s \in Subs, s \in Live', s \notin done, s \notin path, Parent(s) = active, s # active,
           done' = done, site' = site, active' = s,
           \A t \in Live : t \in Live',
           \A t \in (Unfinished' \ path) \ {s} : t \in Range(postponed'[Parent(t)]),
           \A p \in Requests : \A i \in DOMAIN postponed'[p] :
                postponed'[p][i] \in (path \cup {s}) \ {Main} => i = 1
    PROVE  Lead(path \cup {s})'
<1> DEFINE trail == path \cup {s}
<1>1. trail \subseteq Undone' \cup {Main} /\ Main \in trail /\ active' \in trail
  BY DEF Lead, Undone
<1>2. \A t \in trail \ {Main} : Parent(t) \in trail \ {s}
  BY DEF Lead
<1>3. \A t, q \in trail \ {Main} : Parent(t) = Parent(q) => t = q
  BY DEF Lead
<1>4. \A p \in trail \ {s} : \E t \in trail \ {Main} : Parent(t) = p
  <2>1. s # Main /\ s \in trail
    BY Names
  <2>2. \A p \in path \ {active} : \E t \in trail \ {Main} : Parent(t) = p
    BY DEF Lead
  <2> QED BY <2>1, <2>2
<1>5. \A t \in Unfinished' \ trail : t \in Range(postponed'[Parent(t)])
  OBVIOUS
<1>6. \A p \in Requests : \A i \in DOMAIN postponed'[p] : postponed'[p][i] \in trail \ {Main} => i = 1
  OBVIOUS
<1> HIDE DEF trail
<1>7. Lead(trail)'
  BY <1>1, <1>2, <1>3, <1>4, <1>5, <1>6, ParentStays DEF Lead
<1> QED BY <1>7 DEF trail

(* A request that is done exists. *)
LEMMA DoneLives ==
    ASSUME Base, Finished
    PROVE  done \subseteq Live
  BY BaseTyped DEF Base, Started, Finished

(* The tree is kept by a new subrequest. *)
LEMMA TreeSubrequest ==
    ASSUME Base, Base', Calls, Finished, Tree, NEW r \in Requests, Subrequest(r)
    PROVE  Tree'
<1>0. PICK s \in Subs : s = Script(r)[pos[r] + 1]
  BY NewIs
<1>n. /\ s \in Subs /\ s \in Requests /\ s \notin Live /\ s # Main
      /\ Parent(s) = r /\ s # Data
  BY <1>0, NewIs, Names
<1>l. Live' = Live \cup {s}
  BY <1>0, BaseSubrequest
<1>r. r \in Live /\ r \notin done /\ r # s
  <2>1. call.fn = "content" /\ call.r = r
    BY DEF Subrequest, Running
  <2> QED BY <1>n, <2>1, BaseTyped DEF Calls, Fn, Running
<1>t. postponed \in [Requests -> Seq(Items)] /\ s \in Items
      /\ pos \in [Requests -> Int]
  BY <1>n, Typed, ItemsAre
<1>a. /\ pos' = [pos EXCEPT ![r] = pos[r] + 1]
      /\ active' = IF r = active /\ postponed[r] = <<>> THEN s ELSE active
      /\ postponed' = [postponed EXCEPT ![r] = Append(postponed[r], s)]
      /\ UNCHANGED <<site, done>>
  BY <1>0 DEF Subrequest, FirstInLine
<1>s. s \notin done
  BY <1>n, DoneLives
<1>d. Data \notin Subs
  BY Names
<1>p. s = Script(r)[pos'[r]]
  <2>1. pos'[r] = pos[r] + 1
    BY <1>a, <1>t
  <2> QED BY <1>0, <2>1
<1> DEFINE list == postponed[r]
           new == Append(list, s)
<1>q. /\ new \in Seq(Items) /\ postponed'[r] = new
      /\ \A q \in Requests : q # r => postponed'[q] = postponed[q]
      /\ Range(new) = Range(list) \cup {s}
      /\ list \in Seq(Items) /\ Len(list) \in Nat /\ DOMAIN list = 1..Len(list)
      /\ DOMAIN new = 1..Len(list) + 1
      /\ \A i \in 1..Len(list) : new[i] = list[i]
      /\ new[Len(list) + 1] = s
  <2>1. list \in Seq(Items)
    BY <1>t
  <2>2. Range(new) = Range(list) \cup {s} /\ new \in Seq(Items)
    <3> HIDE DEF list
    <3> QED BY <1>t, <2>1, RangeAppend
  <2>3. postponed' = [postponed EXCEPT ![r] = new]
    BY <1>a
  <2> HIDE DEF list
  <2>4. /\ Len(list) \in Nat /\ DOMAIN list = 1..Len(list)
        /\ DOMAIN new = 1..Len(list) + 1
        /\ \A i \in 1..Len(list) : new[i] = list[i]
        /\ new[Len(list) + 1] = s
    BY <1>t, <2>1, AppendProperties
  <2> HIDE DEF new
  <2> QED BY <1>t, <2>1, <2>2, <2>3, <2>4
<1> HIDE DEF new
<1>o. \A q \in Requests : \A i \in DOMAIN postponed[q] : postponed[q][i] # s
  BY <1>n, Listed
<1>u. Unfinished' = Unfinished \cup {s}
  BY <1>a, <1>l, <1>n, <1>s, UnfinishedIs
<1>5. PICK path \in SUBSET Requests : Lead(path)
  BY DEF Tree
<1>6. s \notin path
  BY <1>5, <1>n, LiveIs DEF Lead, Undone
<1>7. \A t \in Unfinished' \ path : t \in Range(postponed'[Parent(t)])
  <2> SUFFICES ASSUME NEW t \in Unfinished', t \notin path PROVE t \in Range(postponed'[Parent(t)])
    OBVIOUS
  <2>1. CASE t = s
    BY <1>n, <1>q, <2>1
  <2>2. CASE t # s
    <3>1. t \in Unfinished /\ t \in Range(postponed[Parent(t)])
      BY <1>5, <1>u, <2>2 DEF Lead
    <3>2. Parent(t) \in Requests
      BY <3>1, ParentLives, LiveIs, UnfinishedIs
    <3> QED BY <1>q, <3>1, <3>2
  <2> QED BY <2>1, <2>2
<1>8. \E p \in SUBSET Requests : Lead(p)'
  <2>1. CASE r = active /\ postponed[r] = <<>>
    <3>1. \A p \in Requests : \A i \in DOMAIN postponed'[p] :
             postponed'[p][i] \in (path \cup {s}) \ {Main} => i = 1
      <4> SUFFICES ASSUME NEW p \in Requests, NEW i \in DOMAIN postponed'[p],
                          postponed'[p][i] \in (path \cup {s}) \ {Main}
                   PROVE  i = 1
        OBVIOUS
      <4>1. CASE p = r
        <5>1. Len(list) = 0 /\ DOMAIN postponed'[p] = 1..1
          BY <1>q, <2>1, <4>1
        <5> QED BY <5>1
      <4>2. CASE p # r
        <5>1. postponed'[p] = postponed[p]
          BY <1>q, <4>2
        <5> QED BY <1>5, <1>o, <5>1 DEF Lead
      <4> QED BY <4>1, <4>2
    <3>2. Lead(path \cup {s})'
      <4>1. active' = s
        BY <1>a, <2>1
      <4>2. Parent(s) = active /\ s # active
        BY <1>n, <1>r, <2>1
      <4>3. s \in Live' /\ \A t \in Live : t \in Live'
        BY <1>l
      <4>4. Ancestry /\ site' = site /\ done' = done
        BY <1>a DEF Tree
      <4>5. \A t \in (Unfinished' \ path) \ {s} : t \in Range(postponed'[Parent(t)])
        BY <1>7
      <4> QED BY <1>5, <1>6, <1>n, <1>s, <3>1, <4>1, <4>2, <4>3, <4>4, <4>5, PathGrows
    <3> QED BY <1>n, <3>2
  <2>2. CASE ~(r = active /\ postponed[r] = <<>>)
    <3>1. active' = active
      BY <1>a, <2>2
    <3>2. \A p \in Requests : \A i \in DOMAIN postponed'[p] : postponed'[p][i] \in path \ {Main} => i = 1
      <4> SUFFICES ASSUME NEW p \in Requests, NEW i \in DOMAIN postponed'[p],
                          postponed'[p][i] \in path \ {Main}
                   PROVE  i = 1
        OBVIOUS
      <4>1. CASE p = r
        <5>1. i \in 1..Len(list) + 1 /\ postponed'[p][i] # s
          BY <1>6, <1>q, <4>1
        <5>2. i \in 1..Len(list)
          BY <1>q, <4>1, <5>1
        <5>3. i \in DOMAIN postponed[r] /\ postponed[r][i] \in path \ {Main}
          BY <1>q, <4>1, <5>2
        <5> QED BY <1>5, <5>3 DEF Lead
      <4>2. CASE p # r
        <5>1. postponed'[p] = postponed[p]
          BY <1>q, <4>2
        <5> QED BY <1>5, <5>1 DEF Lead
      <4> QED BY <4>1, <4>2
    <3>3. path \subseteq Undone' \cup {Main}
      BY <1>5, <1>a, <1>l DEF Lead, Undone
    <3>4. Lead(path)'
      BY <1>5, <1>7, <1>a, <3>1, <3>2, <3>3, ParentStays DEF Lead
    <3> QED BY <3>4
  <2> QED BY <2>1, <2>2
<1>9. Lists'
  <2>1. \A i \in DOMAIN new : new[i] \in Subs => new[i] \notin done
    BY <1>q, <1>s DEF Tree, Lists
  <2>2. \A i, j \in DOMAIN new : (new[i] \in Subs /\ new[i] = new[j]) => i = j
    <3>1. \A i, j \in 1..Len(list) : (list[i] \in Subs /\ list[i] = list[j]) => i = j
      BY <1>q DEF Tree, Lists
    <3>2. \A i \in 1..Len(list) : new[i] = list[i] /\ list[i] # s
      BY <1>o, <1>q
    <3>3. \A i \in DOMAIN new : i \in 1..Len(list) \/ i = Len(list) + 1
      BY <1>q
    <3>4. new[Len(list) + 1] = s
      BY <1>q
    <3> QED BY <3>1, <3>2, <3>3, <3>4
  <2> QED BY <1>a, <1>q, <2>1, <2>2 DEF Tree, Lists
<1>10. LastData'
  <2> SUFFICES ASSUME Main \notin done, pos'[Main] >= 1, Script(Main)[pos'[Main]] = Data
               PROVE  /\ postponed'[Main] # <<>> => postponed'[Main][Len(postponed'[Main])] \notin Subs
                      /\ active' # Main => postponed'[Main] # <<>>
    BY <1>a, ParentStays DEF LastData
  <2>1. r # Main
    BY <1>n, <1>p
  <2>2. pos'[Main] = pos[Main] /\ postponed'[Main] = postponed[Main]
    BY <1>a, <1>q, <1>t, <2>1, Names
  <2>3. active' # Main => active # Main
    BY <1>a, <2>1
  <2> QED BY <2>2, <2>3 DEF Tree, LastData
<1>11. Ancestry'
  <2>1. \A t \in Unfinished' : Parent(t) \notin done
    BY <1>n, <1>r, <1>u DEF Tree, Ancestry
  <2>2. \A Z \in SUBSET (Live' \cap Subs) : Z # {} => \E t \in Z : Parent(t) \notin Z
    <3> TAKE Z \in SUBSET (Live' \cap Subs)
    <3>1. CASE Z \ {s} = {}
      BY <1>n, <1>r, <3>1
    <3>2. CASE Z \ {s} # {}
      <4>1. Z \ {s} \in SUBSET (Live \cap Subs)
        BY <1>l
      <4>2. PICK t \in Z \ {s} : Parent(t) \notin Z \ {s}
        BY <3>2, <4>1 DEF Tree, Ancestry
      <4>3. Parent(t) \in Live
        BY <4>1, <4>2, ParentLives
      <4> QED BY <1>n, <4>2, <4>3
    <3> QED BY <3>1, <3>2
  <2> QED BY <1>a, <2>1, <2>2, ParentStays DEF Ancestry
<1> QED BY <1>8, <1>9, <1>10, <1>11 DEF Tree

(* A concatenation, place by place. *)
LEMMA ConcatIs ==
    ASSUME NEW S, NEW s \in Seq(S), NEW t \in Seq(S)
    PROVE  /\ s \o t \in Seq(S) /\ Len(s) \in Nat /\ Len(t) \in Nat
           /\ Len(s \o t) = Len(s) + Len(t) /\ DOMAIN (s \o t) = 1..Len(s) + Len(t)
           /\ DOMAIN s = 1..Len(s) /\ DOMAIN t = 1..Len(t)
           /\ \A i \in 1..Len(s) : (s \o t)[i] = s[i]
           /\ \A i \in 1..Len(s) + Len(t) : i > Len(s) => (s \o t)[i] = t[i - Len(s)] /\ i - Len(s) \in 1..Len(t)
  OBVIOUS

(* The rest of a sequence after a place, place by place. *)
LEMMA SubSeqIs ==
    ASSUME NEW S, NEW s \in Seq(S), NEW f \in DOMAIN s
    PROVE  /\ SubSeq(s, f + 1, Len(s)) \in Seq(S) /\ Len(s) \in Nat /\ f \in 1..Len(s)
           /\ DOMAIN s = 1..Len(s)
           /\ Len(SubSeq(s, f + 1, Len(s))) = Len(s) - f
           /\ DOMAIN SubSeq(s, f + 1, Len(s)) = 1..Len(s) - f
           /\ \A i \in 1..Len(s) - f : SubSeq(s, f + 1, Len(s))[i] = s[f + i] /\ f + i \in DOMAIN s
<1>1. /\ Len(s) \in Nat /\ f \in 1..Len(s) /\ DOMAIN s = 1..Len(s)
      /\ f + 1 \in 1..Len(s) + 1 /\ Len(s) \in f..Len(s)
  OBVIOUS
<1>2. /\ SubSeq(s, f + 1, Len(s)) \in Seq(S)
      /\ Len(SubSeq(s, f + 1, Len(s))) = Len(s) - f
  BY <1>1, SubSeqProperties
<1>3. \A i \in 1..Len(s) - f : SubSeq(s, f + 1, Len(s))[i] = s[f + i] /\ f + i \in DOMAIN s
  BY <1>1, <1>2
<1> QED BY <1>1, <1>2, <1>3

(* A part of a body is no subrequest. *)
LEMMA PartsAreNoSubs == AnyPart \cap Subs = {} /\ AnyPart \subseteq Items /\ Data \notin Subs
  BY ItemsAre, Names

(* The tree is kept by a step that writes: the path grows by the request that may send. *)
LEMMA TreeWrites ==
    ASSUME Base, Base', Live' = Live, Tree, NEW r \in Requests, EmitData(r) \/ Flush(r)
    PROVE  Tree'
<1>w. PICK in \in Seq(AnyPart), n \in Int,
              next \in {Call("content", r, "ok"), Call("written", r, "ok"), Return} :
              /\ Writes(r, in, next, n)
              /\ Emits(r, in, next, n) \/ Drains(r, in, next, n)
  BY WriteSteps
<1>t. /\ postponed \in [Requests -> Seq(Items)] /\ pos \in [Requests -> Int]
      /\ Main \in Requests /\ in \in Seq(Items) /\ postponed[r] \in Seq(Items)
  BY Typed, Names, PartsAreNoSubs
<1>0. PICK list \in Seq(Items) : list = postponed[r] \o in
  BY <1>t, ConcatIs
<1>1. /\ UNCHANGED <<site, done, reader>> /\ pos' = [pos EXCEPT ![r] = n]
      /\ \/ postponed' = [postponed EXCEPT ![r] = list] /\ active' = active
         \/ r = active /\ SendsAll(r, list)
         \/ r = active /\ \E f \in DOMAIN list : SendsUpTo(r, list, f)
      /\ r # active => postponed' = [postponed EXCEPT ![r] = list]
  BY <1>w, <1>0 DEF Writes, GoesOn, Breaks, Keeps
<1>2. /\ DOMAIN list = 1..Len(list) /\ Len(list) \in Nat
      /\ DOMAIN postponed[r] \subseteq DOMAIN list
      /\ \A i \in DOMAIN postponed[r] : list[i] = postponed[r][i]
      /\ \A i \in DOMAIN list : i \notin DOMAIN postponed[r] => list[i] \in AnyPart
  <2>1. /\ Len(postponed[r]) \in Nat /\ Len(in) \in Nat
        /\ DOMAIN postponed[r] = 1..Len(postponed[r])
        /\ DOMAIN in = 1..Len(in) /\ Len(list) = Len(postponed[r]) + Len(in)
        /\ DOMAIN list = 1..Len(list)
        /\ \A i \in 1..Len(postponed[r]) : list[i] = postponed[r][i]
        /\ \A i \in 1..Len(list) : i > Len(postponed[r]) =>
              list[i] = in[i - Len(postponed[r])] /\ i - Len(postponed[r]) \in 1..Len(in)
    BY <1>0, <1>t, ConcatIs
  <2>2. \A i \in 1..Len(in) : in[i] \in AnyPart
    BY <2>1
  <2> HIDE <1>t
  <2>3. DOMAIN postponed[r] \subseteq DOMAIN list
    BY <2>1
  <2>4. \A i \in DOMAIN list : i \notin DOMAIN postponed[r] => i > Len(postponed[r])
    BY <2>1
  <2> QED BY <2>1, <2>2, <2>3, <2>4
<1>3. \A i \in DOMAIN list : list[i] \in Subs => i \in DOMAIN postponed[r] /\ list[i] = postponed[r][i]
  BY <1>2, PartsAreNoSubs
<1>4. \A i \in DOMAIN list : list[i] \in Subs =>
         /\ list[i] \in Live /\ list[i] # Main /\ Parent(list[i]) = r /\ list[i] \notin done
         /\ \A j \in DOMAIN list : list[i] = list[j] => i = j
  BY <1>3, Listed DEF Tree, Lists
<1>5. PICK path \in SUBSET Requests : Lead(path)
  BY DEF Tree
<1>6. \A i \in DOMAIN list : list[i] \in path \ {Main} => i = 1
  <2>1. \A s \in path \ {Main} : s \in Subs
    BY <1>5, Names
  <2> QED BY <1>3, <1>5, <2>1 DEF Lead
<1>u. Unfinished' = Unfinished /\ \A s \in Unfinished : Parent(s) \in Requests
  BY <1>1, UnfinishedIs, ParentLives, LiveIs
<1>7. \A s \in Unfinished \ path : Parent(s) = r => \E i \in DOMAIN list : list[i] = s
  BY <1>2, <1>5 DEF Lead, Range
<1>m. (Main \notin done /\ pos'[Main] >= 1 /\ Script(Main)[pos'[Main]] = Data /\ r = Main) =>
         /\ list # <<>> => list[Len(list)] \notin Subs
         /\ active # Main => list # <<>>
  <2> SUFFICES ASSUME Main \notin done, pos'[Main] >= 1, Script(Main)[pos'[Main]] = Data, r = Main
               PROVE  /\ list # <<>> => list[Len(list)] \notin Subs
                      /\ active # Main => list # <<>>
    OBVIOUS
  <2>1. in = <<>> \/ in = <<<<r, n>>>>
    BY <1>w DEF Emits, Drains
  <2>2. CASE in = <<>>
    <3>1. pos' = pos
      <4>1. Drains(r, in, next, n) /\ ~Buffered(r)
        BY <1>w, <2>2 DEF Emits, Drains
      <4> QED BY <1>1, <1>t, <4>1 DEF Drains
    <3>2. list = postponed[Main]
      BY <1>0, <1>t, <2>2
    <3> QED BY <3>1, <3>2 DEF Tree, LastData
  <2>3. CASE in = <<<<r, n>>>>
    <3>1. Len(in) = 1 /\ in[1] \in AnyPart
      BY <2>3
    <3>2. Len(list) = Len(postponed[r]) + 1 /\ Len(postponed[r]) \in Nat
      <4>1. postponed[r] \in Seq(Items) /\ in \in Seq(Items)
        BY <1>t
      <4>2. Len(postponed[r] \o in) = Len(postponed[r]) + Len(in) /\ Len(postponed[r]) \in Nat
        BY <4>1, ConcatIs
      <4> QED BY <1>0, <3>1, <4>2
    <3>3. Len(list) \notin DOMAIN postponed[r] /\ Len(list) \in DOMAIN list
      BY <1>2, <1>t, <3>2
    <3>4. list[Len(list)] \notin Subs
      BY <1>3, <3>3
    <3> QED BY <1>2, <3>3, <3>4
  <2> QED BY <2>1, <2>2, <2>3
<1>n. r # Main => pos'[Main] = pos[Main]
  BY <1>1, <1>t
<1>11. Ancestry'
  BY <1>1, <1>u, ParentStays DEF Tree, Ancestry
<1>o. ASSUME NEW new \in Seq(Items), postponed' = [postponed EXCEPT ![r] = new], Len(new) <= Len(list),
             \A i \in DOMAIN new : i + (Len(list) - Len(new)) \in DOMAIN list
                                   /\ new[i] = list[i + (Len(list) - Len(new))],
             active' = Main \/ active' # active \/ postponed' = [postponed EXCEPT ![r] = list]
                \/ r # Main,
             active' # active => r = active /\ Len(new) < Len(list) /\ active' \in Subs
                                 /\ list[Len(list) - Len(new)] \in Subs
      PROVE  Lists' /\ LastData'
  <2>1. \A i \in DOMAIN new : i \in Int /\ Len(new) \in Nat /\ DOMAIN new = 1..Len(new)
    OBVIOUS
  <2>2. /\ postponed'[r] = new
        /\ \A q \in Requests : q # r => postponed'[q] = postponed[q]
    BY <1>o, <1>t
  <2>3. Lists'
    <3>1. \A i \in DOMAIN new : new[i] \in Subs => new[i] \notin done
      BY <1>4, <1>o
    <3>2. \A i, j \in DOMAIN new : (new[i] \in Subs /\ new[i] = new[j]) => i = j
      <4> TAKE i, j \in DOMAIN new
      <4>1. (new[i] \in Subs /\ new[i] = new[j]) => i + (Len(list) - Len(new)) = j + (Len(list) - Len(new))
        BY <1>4, <1>o
      <4> QED BY <1>2, <2>1, <4>1
    <3> QED BY <1>1, <2>2, <3>1, <3>2 DEF Tree, Lists
  <2>4. LastData'
    <3> SUFFICES ASSUME Main \notin done, pos'[Main] >= 1, Script(Main)[pos'[Main]] = Data
                 PROVE  /\ postponed'[Main] # <<>> => postponed'[Main][Len(postponed'[Main])] \notin Subs
                        /\ active' # Main => postponed'[Main] # <<>>
      BY <1>1, ParentStays DEF LastData
    <3>1. CASE r # Main
      <4>1. active' # Main => active # Main
        BY <1>o, <3>1
      <4> QED BY <1>n, <1>t, <2>2, <3>1, <4>1 DEF Tree, LastData
    <3>2. CASE r = Main
      <4>1. new # <<>> => new[Len(new)] \notin Subs
        <5> SUFFICES ASSUME new # <<>> PROVE new[Len(new)] \notin Subs
          OBVIOUS
        <5>1. Len(new) \in DOMAIN new /\ Len(new) \in Nat
          OBVIOUS
        <5>2. Len(new) + (Len(list) - Len(new)) = Len(list)
          BY <1>2, <5>1
        <5>3. new[Len(new)] = list[Len(list)] /\ Len(list) \in DOMAIN list
          BY <1>o, <5>1, <5>2
        <5>4. list # <<>>
          BY <5>3
        <5> QED BY <1>m, <3>2, <5>3, <5>4
      <4>2. active' # Main => new # <<>>
        <5> SUFFICES ASSUME active' # Main, new = <<>> PROVE FALSE
          OBVIOUS
        <5>1. Len(new) = 0
          OBVIOUS
        <5>2. CASE active' # active
          <6>1. list[Len(list) - 0] \in Subs /\ list # <<>> /\ Len(list) - 0 = Len(list)
            BY <1>2, <1>o, <5>1, <5>2
          <6> QED BY <1>m, <3>2, <6>1
        <5>3. CASE active' = active
          <6>1. postponed' = [postponed EXCEPT ![r] = list]
            BY <1>o, <3>2, <5>3
          <6>2. new = list
            BY <1>t, <2>2, <6>1
          <6> QED BY <1>m, <3>2, <5>3, <6>2
        <5> QED BY <5>2, <5>3
      <4> QED BY <2>2, <3>2, <4>1, <4>2
    <3> QED BY <3>1, <3>2
  <2> QED BY <2>3, <2>4
<1>12. CASE postponed' = [postponed EXCEPT ![r] = list] /\ active' = active
  <2>1. postponed'[r] = list /\ \A q \in Requests : q # r => postponed'[q] = postponed[q]
    BY <1>12, <1>t
  <2>2. Lists' /\ LastData'
    <3>1. \A i \in DOMAIN list : i + (Len(list) - Len(list)) \in DOMAIN list
                                 /\ list[i] = list[i + (Len(list) - Len(list))]
      <4>1. Len(list) - Len(list) = 0 /\ \A i \in DOMAIN list : i + 0 = i
        BY <1>2
      <4> QED BY <4>1
    <3>2. Len(list) <= Len(list)
      BY <1>2
    <3> QED BY <1>12, <1>o, <3>1, <3>2
  <2>3. \A s \in Unfinished \ path : s \in Range(postponed'[Parent(s)])
    <3>1. \A s \in Unfinished \ path : Parent(s) = r => s \in Range(list)
      BY <1>7 DEF Range
    <3> QED BY <1>5, <1>u, <2>1, <3>1 DEF Lead
  <2>4. \A p \in Requests : \A i \in DOMAIN postponed'[p] : postponed'[p][i] \in path \ {Main} => i = 1
    BY <1>5, <1>6, <2>1 DEF Lead
  <2>5. Undone' = Undone
    BY <1>1 DEF Undone
  <2>6. Lead(path)'
    BY <1>1, <1>5, <1>12, <1>u, <2>3, <2>4, <2>5, ParentStays DEF Lead
  <2> QED BY <1>11, <2>2, <2>6 DEF Tree
<1>13. CASE r = active /\ SendsAll(r, list)
  <2>0. postponed' = [postponed EXCEPT ![r] = <<>>] /\ active' = active
        /\ \A i \in DOMAIN list : list[i] \notin Subs
    BY <1>13 DEF SendsAll
  <2>1. postponed'[r] = <<>> /\ \A q \in Requests : q # r => postponed'[q] = postponed[q]
    BY <2>0, <1>t
  <2>2. Lists' /\ LastData'
    <3>1. <<>> \in Seq(Items) /\ Len(<<>>) = 0 /\ DOMAIN <<>> = {} /\ Len(<<>>) <= Len(list)
      BY <1>2
    <3>2. active' = Main \/ r # Main
      BY <1>13, <2>0
    <3> QED BY <1>o, <2>0, <3>1, <3>2
  <2>3. \A s \in Unfinished \ path : s \in Range(postponed'[Parent(s)])
    <3>1. \A s \in Unfinished \ path : Parent(s) # r
      BY <1>7, <2>0 DEF Unfinished
    <3> QED BY <1>5, <1>u, <2>1, <3>1 DEF Lead
  <2>4. \A p \in Requests : \A i \in DOMAIN postponed'[p] : postponed'[p][i] \in path \ {Main} => i = 1
    BY <1>5, <2>1 DEF Lead
  <2>5. Undone' = Undone
    BY <1>1 DEF Undone
  <2>6. Lead(path)'
    BY <1>1, <1>5, <2>0, <1>u, <2>3, <2>4, <2>5, ParentStays DEF Lead
  <2> QED BY <1>11, <2>2, <2>6 DEF Tree
<1>14. ASSUME r = active, NEW f \in DOMAIN list, SendsUpTo(r, list, f)
       PROVE  Tree'
  <2>1. PICK s \in Subs : s = list[f]
    BY <1>14 DEF SendsUpTo
  <2> DEFINE new == SubSeq(list, f + 1, Len(list))
  <2>2. /\ new \in Seq(Items) /\ f \in 1..Len(list) /\ Len(new) = Len(list) - f
        /\ DOMAIN new = 1..Len(list) - f
        /\ \A i \in 1..Len(list) - f : new[i] = list[f + i] /\ f + i \in DOMAIN list
    BY SubSeqIs
  <2>3. /\ postponed' = [postponed EXCEPT ![r] = new] /\ active' = s
        /\ \A j \in DOMAIN list : j < f => list[j] \notin Subs
    BY <1>14, <2>1 DEF SendsUpTo
  <2> HIDE DEF new
  <2>4. postponed'[r] = new /\ \A q \in Requests : q # r => postponed'[q] = postponed[q]
    BY <1>t, <2>2, <2>3
  <2>5. /\ s \in Live /\ s # Main /\ Parent(s) = r /\ s \notin done
        /\ \A j \in DOMAIN list : s = list[j] => f = j
    BY <1>4, <2>1
  <2>6. s # r
    <3>1. \E q \in {s} : Parent(q) \notin {s}
      <4>1. {s} \in SUBSET (Live \cap Subs) /\ {s} # {}
        BY <2>5
      <4> QED BY <4>1 DEF Tree, Ancestry
    <3> QED BY <2>5, <3>1
  <2>7. s \notin path
    BY <1>14, <1>5, <2>5 DEF Lead
  <2>8. Lists' /\ LastData'
    <3>1. Len(list) - Len(new) = f /\ Len(new) < Len(list) /\ Len(new) <= Len(list)
      BY <1>2, <2>2
    <3>2. \A i \in DOMAIN new : i + (Len(list) - Len(new)) \in DOMAIN list
                                /\ new[i] = list[i + (Len(list) - Len(new))]
      <4>1. \A i \in DOMAIN new : i + f = f + i
        BY <2>2
      <4> QED BY <2>2, <3>1, <4>1
    <3>3. active' # active /\ active' \in Subs /\ list[Len(list) - Len(new)] \in Subs
      BY <1>14, <2>1, <2>3, <2>6, <3>1
    <3> QED BY <1>14, <1>o, <2>2, <2>3, <3>1, <3>2, <3>3
  <2>9. \A t \in (Unfinished' \ path) \ {s} : t \in Range(postponed'[Parent(t)])
    <3> SUFFICES ASSUME NEW t \in Unfinished, t \notin path, t # s
                 PROVE  t \in Range(postponed'[Parent(t)])
      BY <1>u
    <3>1. CASE Parent(t) # r
      BY <1>5, <1>u, <2>4, <3>1 DEF Lead
    <3>2. CASE Parent(t) = r
      <4>1. PICK i \in DOMAIN list : list[i] = t
        BY <1>7, <3>2
      <4>2. i # f /\ ~(i < f) /\ i \in 1..Len(list) /\ f \in Nat
        BY <1>2, <2>1, <2>2, <2>3, <4>1 DEF Unfinished
      <4>3. i - f \in 1..Len(list) - f /\ f + (i - f) = i
        BY <1>2, <4>2
      <4>4. new[i - f] = t /\ i - f \in DOMAIN new
        BY <2>2, <4>1, <4>3
      <4> QED BY <2>4, <3>2, <4>4 DEF Range
    <3> QED BY <3>1, <3>2
  <2>10. \A p \in Requests : \A i \in DOMAIN postponed'[p] :
             postponed'[p][i] \in (path \cup {s}) \ {Main} => i = 1
    <3> SUFFICES ASSUME NEW p \in Requests, NEW i \in DOMAIN postponed'[p],
                        postponed'[p][i] \in (path \cup {s}) \ {Main}
                 PROVE  i = 1
      OBVIOUS
    <3>1. CASE p # r
      <4>1. postponed'[p] = postponed[p]
        BY <2>4, <3>1
      <4>2. postponed[p][i] # s
        BY <2>5, <3>1, <4>1, Listed
      <4> QED BY <1>5, <4>1, <4>2 DEF Lead
    <3>2. CASE p = r
      <4>1. /\ i \in 1..Len(list) - f /\ f + i \in DOMAIN list
            /\ list[f + i] \in (path \cup {s}) \ {Main}
        BY <2>2, <2>4, <3>2
      <4>2. f + i # f /\ f + i # 1
        BY <1>2, <2>2, <4>1
      <4>3. list[f + i] # s
        BY <2>5, <4>1, <4>2
      <4> QED BY <1>6, <4>1, <4>2, <4>3
    <3> QED BY <3>1, <3>2
  <2>11. Lead(path \cup {s})'
    <3>1. s \in Live' /\ \A t \in Live : t \in Live'
      BY <2>5
    <3>2. /\ Ancestry /\ done' = done /\ site' = site /\ Parent(s) = active /\ s # active
          /\ active' = s
      BY <1>1, <1>14, <2>3, <2>5, <2>6 DEF Tree
    <3> QED BY <1>5, <2>5, <2>7, <2>9, <2>10, <3>1, <3>2, PathGrows
  <2>12. path \cup {s} \in SUBSET Requests
    BY Names
  <2> QED BY <1>11, <2>8, <2>11, <2>12 DEF Tree
<1> QED BY <1>1, <1>12, <1>13, <1>14

-----------------------------------------------------------------------------
(* At any time *)

(* Sane is kept by any handler. *)
LEMMA SaneHandle ==
    ASSUME Base, Sane, site' = site, NEW r \in Requests, Handle(r), ~freed
    PROVE  Sane'
<1>t. /\ handler \in [Requests -> HandlerTypes] /\ reader \in [Requests -> ReaderTypes]
      /\ Subs \subseteq Requests
  BY Typed, Names
<1>1. freed' = freed /\ astray' = astray /\ torn' = torn
  BY DEF Handle, Starts, Downstream, Flushes, Finalizer, TerminateHandler, Ignores, PhasesAgain,
     body
<1>2. CASE Starts(r)
  BY <1>1, <1>2, <1>t DEF Starts, Sane
<1>3. CASE ~Starts(r)
  <2>1. handler' = handler /\ reader' = reader
    BY <1>3 DEF Handle, Downstream, Flushes, Finalizer, TerminateHandler, Ignores, PhasesAgain
  <2> QED BY <1>1, <2>1 DEF Sane
<1> QED BY <1>2, <1>3

(* Sane is kept by every step. *)
LEMMA SaneNext ==
    ASSUME Base, Sane, Next
    PROVE  Sane'
<1>t. /\ handler \in [Requests -> HandlerTypes] /\ reader \in [Requests -> ReaderTypes]
      /\ Subs \subseteq Requests /\ Main \in Requests /\ Main \notin Subs
  BY Typed, Names
<1>1. CASE RunPosted
  <2>1. Head(posted) \in Requests /\ ~freed
    BY <1>1, BaseTyped DEF RunPosted
  <2> QED BY <1>1, <2>1, SaneHandle DEF RunPosted
<1>2. CASE WriteEvent
  <2>1. active \in Requests /\ ~freed
    BY <1>2, BaseTyped, LiveIs DEF WriteEvent, Sane, Running
  <2> QED BY <1>2, <2>1, SaneHandle DEF WriteEvent
<1>3. ASSUME NEW r \in Requests, EmitData(r) \/ Flush(r) PROVE Sane'
  BY <1>3 DEF EmitData, Flush, Sane, Running
<1>4. ASSUME NEW r \in Requests, Subrequest(r) PROVE Sane'
  <2>1. Script(r)[pos[r] + 1] \in Subs
    BY <1>4, NewIs
  <2> QED BY <1>4, <1>t, <2>1 DEF Subrequest, Sane, Running
<1>5. ASSUME NEW r \in Requests, EndContent(r) \/ Written(r) \/ Finalize(r) PROVE Sane'
  BY <1>5, <1>t DEF EndContent, Written, Finalize, FinalizeDone, FinalizeError, FinalizeLater,
        FinalizeActive, FinalizeEarly, Finalizes, Sane, Running, body
<1>6. CASE FinalizeMain \/ FinalizeConnection \/ Close
  BY <1>6, <1>t DEF FinalizeMain, FinalizeConnection, Close, Finalizes, Sane, Running, Call,
     Return
<1>7. CASE Terminate
  BY <1>7, <1>t DEF Terminate, Sane, Running
<1>8. CASE Idle \/ Events \/ ClientLeaves
  BY <1>8 DEF Idle, Events, ClientLeaves, UpstreamEvent, PipeAborts, AioDone, Writable,
         SendTimeout, Lingered, Waits, Sane, Running, Loop, Call, body
<1> QED BY <1>1, <1>2, <1>3, <1>4, <1>5, <1>6, <1>7, <1>8 DEF Next, Work, Content

-----------------------------------------------------------------------------
(* The count *)

(* The subrequests are finitely many, no more than the limit. *)
LEMMA Finite ==
    /\ IsFiniteSet(Subs) /\ Cardinality(Subs) \in Nat /\ Cardinality(Subs) <= 200
    /\ \A S \in SUBSET Subs : IsFiniteSet(S) /\ Cardinality(S) \in Nat /\ Cardinality(S) <= 200
<1>1. IsFiniteSet(Subs) /\ Cardinality(Subs) \in Nat /\ Cardinality(Subs) <= 200
  BY RequestAssumption, FS_CardinalityType DEF MaxSubrequests
<1>2. \A S \in SUBSET Subs : IsFiniteSet(S) /\ Cardinality(S) \in Nat /\ Cardinality(S) <= Cardinality(Subs)
  BY <1>1, FS_Subset, FS_CardinalityType
<1> QED BY <1>1, <1>2

(* A new subrequest is counted. *)
LEMMA CountedSubrequest ==
    ASSUME Base, Finished, Counted, NEW r \in Requests, Subrequest(r)
    PROVE  Counted'
<1>0. PICK s \in Subs : s = Script(r)[pos[r] + 1]
  BY NewIs
<1>1. s \notin Live /\ Live' = Live \cup {s} /\ s \notin done
  BY <1>0, NewIs, BaseSubrequest, DoneLives
<1>2. done' = done /\ alert' = alert /\ again' = again /\ count' = Byte(count + 1)
  BY DEF Subrequest, Referred
<1>3. Unfinished' = Unfinished \cup {s} /\ s \notin Unfinished /\ Unfinished \subseteq Subs
  BY <1>1, <1>2, UnfinishedIs
<1>4. /\ Cardinality(Unfinished) \in Nat /\ Cardinality(Unfinished) <= 200
      /\ Cardinality(Unfinished \cup {s}) = Cardinality(Unfinished) + 1
  BY <1>3, Finite, FS_AddElement
<1>5. count' = count + 1
  BY <1>2, <1>4, ByteIs DEF Counted
<1> QED BY <1>2, <1>3, <1>4, <1>5 DEF Counted

(* A subrequest that is done is counted no more. *)
LEMMA CountedActive ==
    ASSUME Base, Live' = Live, Finished, Counted, NEW r \in Requests, FinalizeActive(r)
    PROVE  Counted'
<1>1. /\ r \in Subs /\ r \in Live /\ r \notin done
  BY BaseTyped, Names DEF FinalizeActive, Finished
<1>2. done' = done \cup {r} /\ alert' = alert /\ again' = again /\ count' = Byte(count - 1)
  BY <1>1, BaseTyped DEF FinalizeActive, Alerts
<1>3. Unfinished' = Unfinished \ {r} /\ r \in Unfinished /\ Unfinished \subseteq Subs
  BY <1>1, <1>2, UnfinishedIs
<1>4. /\ Cardinality(Unfinished) \in Nat /\ Cardinality(Unfinished) <= 200
      /\ Cardinality(Unfinished \ {r}) = Cardinality(Unfinished) - 1
      /\ Cardinality(Unfinished \ {r}) \in Nat
  <2>1. Unfinished \ {r} \in SUBSET Subs /\ Unfinished \in SUBSET Subs
    BY <1>3
  <2> QED BY <1>3, <2>1, Finite, FS_RemoveElement
<1>5. count' = count - 1
  BY <1>2, <1>4, ByteIs DEF Counted
<1> QED BY <1>2, <1>3, <1>4, <1>5 DEF Counted

(* The steps of a request that was not terminated, and is not by the step.   *)

(* What leaves the subrequests and the count alone. *)
LEMMA CountedStays ==
    ASSUME Counted, Unfinished' = Unfinished, count' = count, alert' = alert, again => again'
    PROVE  Counted'
  BY DEF Counted

(* The first posted request is one that exists. *)
LEMMA HandlingPosted ==
    ASSUME Base, Calls, RunPosted
    PROVE  Handling(Head(posted))
<1>1. /\ posted \in Seq(Requests) /\ posted # <<>> /\ posted' = Tail(posted)
      /\ call.fn = "posted" /\ site' = site
  BY BaseTyped DEF RunPosted, Running
<1>2. /\ DOMAIN posted = 1..Len(posted) /\ Len(posted) \in Nat \ {0} /\ Head(posted) = posted[1]
      /\ Tail(posted) \in Seq(Requests) /\ Len(Tail(posted)) = Len(posted) - 1
      /\ \A i \in 1..Len(posted) - 1 : Tail(posted)[i] = posted[i + 1]
  BY <1>1, HeadTailProperties
<1>3. Head(posted) \in Live
  <2>1. Head(posted) \in Range(posted)
    BY <1>2 DEF Range
  <2> QED BY <2>1, BaseTyped
<1>4. \A q \in Range(posted) : q # Head(posted) => q \in Range(posted')
  <2> SUFFICES ASSUME NEW i \in DOMAIN posted, posted[i] # Head(posted)
               PROVE  posted[i] \in Range(Tail(posted))
    BY <1>1 DEF Range
  <2>1. i - 1 \in 1..Len(posted) - 1 /\ (i - 1) + 1 = i
    BY <1>2
  <2>2. i - 1 \in DOMAIN Tail(posted) /\ Tail(posted)[i - 1] = posted[i]
    BY <1>2, <2>1
  <2> QED BY <2>2 DEF Range
<1>5. handler[Main] = "handler" => Head(posted) = Main
  BY <1>2 DEF Calls
<1> QED BY <1>1, <1>3, <1>4, <1>5 DEF Handling

(* Any handler, before a termination. *)
LEMMA UntornHandle ==
    ASSUME Base, Base', Live' = Live, Untorn, NEW r \in Requests, Handle(r), Handling(r)
    PROVE  Untorn'
<1>1. handler[r] # "terminate"
  BY DEF Untorn, Handlers
<1>2. /\ UNCHANGED <<postponed, done, active, count, alert, site>> /\ (again => again')
  BY <1>1 DEF Handle, Starts, Downstream, Flushes, Finalizer, TerminateHandler, Ignores,
     PhasesAgain, body, Handling
<1>3. pos'[Main] \in {pos[Main], 0}
  <2>1. pos' = pos \/ pos' = [pos EXCEPT ![r] = 0]
    BY DEF Handle, Starts, Downstream, Flushes, Finalizer, TerminateHandler, Ignores,
       PhasesAgain, body
  <2> QED BY <2>1, Typed, Names
<1>4. Unfinished' = Unfinished
  BY <1>2, UnfinishedIs
<1> QED BY <1>2, <1>3, <1>4, GroupsHandle, TreeStays, CountedStays DEF Untorn, Groups

(* Every step that is before a termination and frees nothing. *)
LEMMA UntornNext ==
    ASSUME Base, Base', Sane, Untorn, ~torn, ~freed, Next, ~torn', ~freed'
    PROVE  Untorn'
<1>g. Groups /\ Tree /\ Counted
  BY DEF Untorn, Groups
<1>1. CASE RunPosted
  <2>1. Handling(Head(posted)) /\ Head(posted) \in Requests /\ Handle(Head(posted))
    BY <1>1, <1>g, HandlingPosted, LiveIs DEF Groups, RunPosted, Handling
  <2>2. Live' = Live
    BY <1>1, BaseOther
  <2> QED BY <2>1, <2>2, UntornHandle
<1>2. CASE WriteEvent
  <2>1. Handling(active)
    BY <1>2, <1>g, BaseTyped DEF Handling, WriteEvent, Running, Groups, Calls, Range
  <2>2. Live' = Live /\ Handle(active) /\ active \in Requests
    BY <1>2, BaseOther, BaseTyped, LiveIs DEF WriteEvent
  <2> QED BY <2>1, <2>2, UntornHandle
<1>3. ASSUME NEW r \in Requests, EmitData(r) \/ Flush(r) PROVE Untorn'
  <2>1. Live' = Live
    BY <1>3, BaseEmit
  <2>2. UNCHANGED <<reader, done, count, alert, again>>
    BY <1>3 DEF EmitData, Flush
  <2>3. Unfinished' = Unfinished
    BY <2>1, <2>2, UnfinishedIs
  <2>4. Lists
    BY <1>g DEF Tree
  <2> QED BY <1>3, <1>g, <2>1, <2>2, <2>3, <2>4, GroupsWrites, TreeWrites, CountedStays
             DEF Untorn, Groups
<1>4. ASSUME NEW r \in Requests, Subrequest(r) PROVE Untorn'
  BY <1>4, <1>g, GroupsSubrequest, TreeSubrequest, CountedSubrequest DEF Untorn, Groups
<1>5. ASSUME NEW r \in Requests, FinalizeActive(r) PROVE Untorn'
  <2>1. Live' = Live
    BY <1>5, BaseFinalizes
  <2>2. Ancestry
    BY <1>g DEF Tree
  <2> QED BY <1>5, <1>g, <2>1, <2>2, GroupsFinalize, TreeActive, CountedActive DEF Untorn,
             Groups
<1>6. ASSUME NEW r \in Requests, Written(r) \/ FinalizeError(r) \/ FinalizeLater(r) \/ FinalizeEarly(r)
      PROVE Untorn'
  <2>1. Live' = Live
    BY <1>6, BaseFinalizes
  <2>2. Ancestry
    BY <1>g DEF Tree
  <2>3. UNCHANGED <<site, postponed, pos, done, active, count, alert, again>>
    BY <1>6 DEF Written, FinalizeError, FinalizeLater, FinalizeEarly, body
  <2>4. Unfinished' = Unfinished
    BY <2>1, <2>3, UnfinishedIs
  <2> QED BY <1>6, <1>g, <2>1, <2>2, <2>3, <2>4, GroupsFinalize, TreeStays, CountedStays
             DEF Untorn, Groups
<1>7. CASE FinalizeMain
  <2>1. Live' = Live
    BY <1>7, BaseOther
  <2>2. active = Main /\ Unfinished = {}
    BY <1>7, <1>g, MainIsLast DEF Groups
  <2>3. UNCHANGED <<reader, count, again>> /\ alert' = alert /\ done' = done \cup {Main}
    BY <1>7, <2>2, BaseTyped DEF FinalizeMain, Alerts
  <2>4. Unfinished' = Unfinished
    BY <2>1, <2>2, <2>3, UnfinishedIs
  <2> QED BY <1>7, <1>g, <2>1, <2>3, <2>4, GroupsMain, TreeMain, CountedStays DEF Untorn, Groups
<1>8. CASE FinalizeConnection
  <2>1. Live' = Live
    BY <1>8, BaseOther
  <2>2. UNCHANGED <<site, postponed, pos, done, active, count, alert, again>>
    BY <1>8 DEF FinalizeConnection
  <2>3. Unfinished' = Unfinished
    BY <2>1, <2>2, UnfinishedIs
  <2> QED BY <1>8, <1>g, <2>1, <2>2, <2>3, GroupsConnection, TreeStays, CountedStays DEF Untorn,
             Groups
<1>9. ASSUME NEW r \in Requests,
             \/ Idle \/ Writable \/ SendTimeout \/ Lingered \/ UpstreamEvent(r) \/ PipeAborts(r)
             \/ AioDone(r) \/ EndContent(r) \/ ClientLeaves
      PROVE  Untorn'
  <2>1. Live' = Live
    <3>1. \/ Idle \/ Events \/ EndContent(r) \/ ClientLeaves
      BY <1>9 DEF Events
    <3>2. Idle \/ Events \/ EndContent(r) => Simple
      BY DEF Simple
    <3> QED BY <3>1, <3>2, BaseSimple, BaseOther
  <2>2. UNCHANGED <<site, postponed, pos, done, active, count, alert, again>>
    BY <1>9 DEF Idle, Writable, SendTimeout, Lingered, UpstreamEvent, PipeAborts, AioDone,
       EndContent,
         ClientLeaves, body
  <2>3. Unfinished' = Unfinished
    BY <2>1, <2>2, UnfinishedIs
  <2> QED BY <1>9, <1>g, <2>1, <2>2, <2>3, GroupsSimple, TreeStays, CountedStays DEF Untorn,
             Groups
<1>10. ~(\E r \in Requests : FinalizeDone(r))
  BY <1>g DEF FinalizeDone, Finalizes, Groups, Calls
<1>11. ~Terminate
  BY DEF Terminate
<1>12. ~Close
  <2> SUFFICES ASSUME Close PROVE FALSE
    OBVIOUS
  <2>1. Main \in done
    BY <1>g DEF Close, Running, Groups, Calls
  <2>2. aio = {} /\ Unfinished = {}
    BY <1>g, <2>1 DEF Groups, Finished
  <2>3. count = 1
    BY <1>g, <2>2, FS_EmptySet DEF Counted
  <2> QED BY <2>2, <2>3 DEF Close, Blocked
<1>13. Main \in Requests
  BY Names
<1> QED BY <1>1, <1>2, <1>3, <1>4, <1>5, <1>6, <1>7, <1>8, <1>9, <1>10, <1>11, <1>12, <1>13
        DEF Next, Work, Events, Content, Finalize

(* The pool of a request that was not terminated is freed. *)
LEMMA FreedAtLast ==
    ASSUME Base, Base', Untorn, ~torn, ~freed, Next, freed'
    PROVE  Freed'
<1>1. FinalizeConnection \/ Close
  BY DEF Next, Work, Events, Content, Finalize, RunPosted, WriteEvent, Handle, Starts,
     Downstream, Flushes,
         Finalizer, TerminateHandler, Ignores, PhasesAgain, Idle, EmitData, Subrequest, EndContent,
         Flush, Written, FinalizeDone, FinalizeError, FinalizeLater, FinalizeActive, FinalizeEarly,
         FinalizeMain, Terminate, UpstreamEvent, PipeAborts, AioDone, Writable, SendTimeout, Lingered,
         ClientLeaves, body
<1>2. Main \in done
  BY <1>1 DEF Close, FinalizeConnection, Running, Untorn, Calls
<1>3. aio = {} /\ Unfinished = {} /\ active = Main
  BY <1>2 DEF Untorn, Finished
<1>4. upstream = {}
  <2>1. \A r \in upstream : r \in Live /\ r \notin done
    BY BaseTyped DEF Untorn, Finished
  <2> QED BY <1>2, <1>3, <2>1, UnfinishedIs, LiveIs, Names
<1>5. count = 1
  BY <1>3, FS_EmptySet DEF Untorn, Counted
<1>6. /\ UNCHANGED <<aio, upstream, done, again, torn>> /\ (alert' => alert)
      /\ \A s \in Subs : reader'[s] = reader[s]
  <2>1. reader' = reader \/ reader' = [reader EXCEPT ![Main] = "linger"]
    BY <1>1 DEF Close, FinalizeConnection
  <2>2. \A s \in Subs : reader'[s] = reader[s]
    BY <2>1, Typed, Names
  <2>3. UNCHANGED <<aio, upstream, done, again, torn>>
    BY <1>1 DEF Close, FinalizeConnection
  <2>4. alert' => alert
    <3>1. alert' = (alert \/ count = 0) \/ alert' = alert
      BY <1>1 DEF Close, FinalizeConnection, Alerts
    <3>2. count # 0
      BY <1>5
    <3>3. CASE alert' = alert
      BY <3>3
    <3>4. CASE alert' = (alert \/ count = 0)
      BY <3>2, <3>4
    <3> QED BY <3>1, <3>3, <3>4
  <2> QED BY <2>2, <2>3, <2>4
<1>7. Unfinished' = {}
  BY <1>3, <1>6 DEF Unfinished
<1> QED BY <1>3, <1>4, <1>6, <1>7 DEF Freed, Untorn, Counted

(* Of two sets in a third, with nothing in common, both fit.                 *)
LEMMA Fit ==
    ASSUME NEW S, IsFiniteSet(S), NEW A, NEW B, A \cup B \subseteq S, A \cap B = {}
    PROVE  /\ Cardinality(A) \in Nat /\ Cardinality(B) \in Nat /\ Cardinality(S) \in Nat
           /\ Cardinality(A \cup B) = Cardinality(A) + Cardinality(B)
           /\ Cardinality(A) + Cardinality(B) <= Cardinality(S)
<1>1. /\ IsFiniteSet(A) /\ IsFiniteSet(B) /\ IsFiniteSet(A \cup B)
      /\ Cardinality(A \cup B) <= Cardinality(S)
  BY FS_Subset
<1>2. Cardinality(A \cup B) = Cardinality(A) + Cardinality(B)
  <2>1. Cardinality(A \cup B) = Cardinality(A) + Cardinality(B) - Cardinality(A \cap B)
    BY <1>1, FS_Union
  <2>2. Cardinality(A \cap B) = 0
    BY FS_EmptySet
  <2> QED BY <1>1, <2>1, <2>2, FS_CardinalityType
<1> QED BY <1>1, <1>2, FS_CardinalityType

(* Arithmetic of the bounds when the upstreams leave the count. *)
LEMMA Difference ==
    ASSUME NEW n \in Nat, NEW u \in Nat, NEW w \in Nat, NEW c \in 0..255,
           1 + w + u <= c, c <= 1 + n
    PROVE  /\ c - u \in 0..255 /\ c - u \in Int /\ c - u >= 1 + w /\ c - u <= 1 + n
           /\ ~(c <= u)
  OBVIOUS

(* The upstreams and the subrequests that have not started are no more than  *)
(* the unfinished subrequests, the main request and the one that ends being  *)
(* another.                                                                  *)
LEMMA Under ==
    ASSUME Base, Untorn, NEW r \in Live, r \notin upstream, r \notin done,
           NEW U \in SUBSET Unstarted, r \notin U
    PROVE  /\ Cardinality(upstream) \in Nat /\ Cardinality(U) \in Nat
           /\ Cardinality(upstream) + Cardinality(U) <= Cardinality(Unfinished)
           /\ Cardinality(Unfinished) \in Nat
<1>1. Unfinished \subseteq Subs /\ IsFiniteSet(Unfinished)
  BY Finite, UnfinishedIs
<1>2. U \subseteq Unfinished
  BY UnfinishedIs DEF Unstarted, Untorn, Finished
<1>3. upstream \subseteq Unfinished \cup {Main} /\ upstream \cap U = {}
  BY BaseTyped, UnfinishedIs, Names, LiveIs DEF Unstarted, Untorn, Finished, Handlers
<1>4. CASE Main \notin upstream
  <2>1. upstream \cup U \subseteq Unfinished
    BY <1>2, <1>3, <1>4
  <2> QED BY <1>1, <1>3, <2>1, Fit
<1>5. CASE Main \in upstream
  <2> DEFINE A == (upstream \ {Main}) \cup {r}
  <2>1. r \in Unfinished /\ r # Main /\ r \notin upstream \ {Main}
    BY <1>5, UnfinishedIs, LiveIs, Names
  <2>2. A \cup U \subseteq Unfinished /\ A \cap U = {}
    BY <1>2, <1>3, <2>1
  <2>3. Cardinality(A) + Cardinality(U) <= Cardinality(Unfinished)
        /\ Cardinality(A) \in Nat /\ Cardinality(U) \in Nat /\ Cardinality(Unfinished) \in Nat
    <3> HIDE DEF A
    <3> QED BY <1>1, <2>2, Fit
  <2>4. IsFiniteSet(upstream \ {Main}) /\ IsFiniteSet(upstream)
    <3>1. upstream \ {Main} \subseteq Unfinished
      BY <1>3
    <3>2. IsFiniteSet(upstream \ {Main})
      BY <1>1, <3>1, FS_Subset
    <3>3. upstream = (upstream \ {Main}) \cup {Main}
      BY <1>5
    <3> QED BY <3>2, <3>3, FS_AddElement
  <2>5. Cardinality(A) = Cardinality(upstream \ {Main}) + 1
    BY <2>1, <2>4, FS_AddElement
  <2>6. /\ Cardinality(upstream \ {Main}) = Cardinality(upstream) - 1
        /\ Cardinality(upstream) \in Nat
    BY <1>5, <2>4, FS_RemoveElement, FS_CardinalityType
  <2> HIDE DEF A
  <2> QED BY <2>3, <2>5, <2>6
<1> QED BY <1>4, <1>5

(* The first termination leaves the request reaped or waiting for a file. *)
LEMMA TerminateUntorn ==
    ASSUME Base, Base', Sane, Untorn, ~torn, ~freed, Terminate, ~astray'
    PROVE  Torn'
<1> DEFINE under == Cardinality(upstream)
<1>0. call.r \in Live
  BY BaseTyped DEF Terminate, Running, Fn
<1>r. PICK r \in Live : r = call.r
  BY <1>0
<1>1. /\ call.fn = "terminate" /\ aio \in {{}, {r}} /\ count' = Byte(count - under)
      /\ upstream' = {} /\ call' = Return
      /\ IF aio # {} THEN UNCHANGED <<handler, posted>>
         ELSE /\ handler' = [handler EXCEPT ![Main] = "terminate"]
              /\ posted' = <<Main>>
      /\ UNCHANGED <<site, reader, pos, done, active, aio, client, again>>
      /\ Alerts(count <= under)
  BY <1>r DEF Terminate, Running, Blocked
<1>t. /\ handler \in [Requests -> HandlerTypes] /\ Main \in Requests /\ Main \in Live
      /\ Live \subseteq Requests
  BY Typed, LiveIs, Names
<1>2. r \in Live /\ r \notin upstream /\ (r \notin done \/ again) /\ r \in Requests
  BY <1>1, <1>r, <1>t DEF Untorn, Calls, Ending, Running
<1> HIDE DEF under
<1>3. count = 1 + Cardinality(Unfinished) /\ (alert => again) /\ count \in 0..255
  BY BaseTyped DEF Untorn, Counted
<1>4. alert' => again'
  <2>1. CASE again
    BY <1>1, <2>1
  <2>2. CASE r \notin done
    <3>1. {} \in SUBSET Unstarted /\ r \notin {}
      OBVIOUS
    <3>2. under <= Cardinality(Unfinished) /\ under \in Nat /\ Cardinality(Unfinished) \in Nat
      BY <1>2, <2>2, <3>1, Under, FS_EmptySet DEF under
    <3>3. ~(count <= under)
      BY <1>3, <3>2
    <3>4. alert' => alert
      <4>1. alert' = (alert \/ count <= under)
        BY <1>1 DEF Alerts
      <4> QED BY <3>3, <4>1
    <3> QED BY <1>1, <1>3, <3>4
  <2> QED BY <1>2, <2>1, <2>2
<1>5. CASE aio = {}
  <2>1. handler'[Main] = "terminate" /\ posted' = <<Main>>
    BY <1>1, <1>5, <1>t
  <2> QED BY <1>1, <1>4, <1>5, <2>1 DEF Torn, Reaped
<1>6. CASE aio = {r}
  <2>1. /\ r = active /\ handler[r] = "finalizer"
        /\ client.error \/ (client.timedout /\ posted = <<>>)
    BY <1>1, <1>6, <1>r DEF Untorn, Broken, Running
  <2>2. site.kind[r] = "file" /\ Buffered(r) /\ r \notin done
    BY <1>6 DEF Untorn, Handlers, Finished, Buffered
  <2>3. reader[r] # "broken" /\ reader[r] # "linger"
    <3>1. reader[r] # "broken"
      BY <1>2, <2>2 DEF Sane
    <3>2. Main \in done => aio = {}
      BY DEF Untorn, Finished
    <3>3. reader[r] # "linger"
      BY <1>2, <1>6, <3>2 DEF Untorn, Handlers
    <3> QED BY <3>1, <3>3
  <2>4. handler[Main] # "handler" /\ handler[Main] # "terminate"
    BY <1>1, <1>t DEF Untorn, Calls, Handlers, Running
  <2>5. /\ UNCHANGED <<handler, posted>> /\ Live' = Live /\ Unstarted' = Unstarted
        /\ Buffered(r)'
    <3>1. Live' = Live /\ UNCHANGED <<handler, posted>>
      BY <1>1, <1>6 DEF Live
    <3> QED BY <1>1, <2>2, <3>1 DEF Unstarted, Buffered, Made, Script
  <2>6. r \notin Unstarted
    BY <2>1 DEF Unstarted
  <2>7. /\ under + Cardinality(Unstarted) <= Cardinality(Unfinished) /\ under \in Nat
        /\ Cardinality(Unfinished) \in Nat /\ Cardinality(Unstarted) \in Nat
    BY <1>2, <2>2, <2>6, Under DEF under
  <2>8. /\ count' = count - under /\ count' >= 1 + Cardinality(Unstarted)
        /\ count' <= 1 + Cardinality(Unfinished)
    <3> DEFINE n == Cardinality(Unfinished)
               w == Cardinality(Unstarted)
    <3>1. /\ under \in Nat /\ n \in Nat /\ w \in Nat /\ under + w <= n /\ count = 1 + n
          /\ count \in 0..255
      BY <1>3, <2>7
    <3> HIDE DEF n, w
    <3>4. 1 + w + under <= count /\ count <= 1 + n
      BY <3>1
    <3>2. count - under \in 0..255 /\ count - under >= 1 + w /\ count - under <= 1 + n
      <4>1. PICK c \in 0..255 : c = count
        BY <3>1
      <4>2. PICK u \in Nat : u = under
        BY <3>1
      <4>3. 1 + w + u <= c /\ c <= 1 + n
        BY <3>4, <4>1, <4>2
      <4>4. /\ c - u \in 0..255 /\ c - u \in Int /\ c - u >= 1 + w /\ c - u <= 1 + n
            /\ ~(c <= u)
        BY <3>1, <4>3, Difference, ZenonT(60)
      <4> QED BY <4>1, <4>2, <4>4
    <3>3. Byte(count - under) = count - under
      BY <3>2, ByteIs
    <3> QED BY <1>1, <3>2, <3>3 DEF n, w
  <2>9. count' >= 1 + Cardinality(upstream' \cup Unstarted')
    <3>1. upstream' \cup Unstarted' = Unstarted
      BY <1>1, <2>5
    <3> QED BY <2>8, <3>1
  <2>10. count' <= 1 + Cardinality(Live' \cap Subs)
    <3>1. Unfinished \subseteq Live \cap Subs /\ IsFiniteSet(Live \cap Subs)
      BY UnfinishedIs, Finite
    <3>2. /\ Cardinality(Unfinished) <= Cardinality(Live \cap Subs)
          /\ Cardinality(Live \cap Subs) \in Nat
      BY <3>1, FS_Subset, FS_CardinalityType
    <3> QED BY <2>5, <2>7, <2>8, <3>2
  <2>11. call'.fn = "posted" /\ active' = r /\ handler'[r] = "finalizer" /\ reader' = reader
    BY <1>1, <2>1, <2>5 DEF Return, Call
  <2>12. \/ client'.error /\ r \in aio'
         \/ /\ ~client'.error /\ client'.timedout /\ Buffered(r)' /\ posted' = <<>>
            /\ aio' \subseteq {r}
    BY <1>1, <1>6, <2>1, <2>5
  <2>13. site'.kind[r] = "file" /\ upstream' = {} /\ handler'[Main] = handler[Main]
    BY <1>1, <2>2, <2>5
  <2>14. Waiting'
    BY <2>3, <2>4, <2>9, <2>10, <2>11, <2>12, <2>13 DEF Waiting, Shares, Running, On, Ending
  <2> QED BY <1>1, <1>4, <2>14 DEF Torn
<1> QED BY <1>1, <1>5, <1>6

(* The steps of a request that was terminated while a file was being read    *)
(* for it.                                                                   *)

(* The bounds are kept when nobody new takes a share. *)
LEMMA SharesStay ==
    ASSUME Base, Shares, Live' = Live, count' = count,
           upstream' \cup Unstarted' \subseteq upstream \cup Unstarted,
           upstream' \cap Unstarted' = {}
    PROVE  Shares'
<1>1. IsFiniteSet(upstream \cup Unstarted)
  <2>1. Requests = Subs \cup {Main} /\ IsFiniteSet(Requests)
    BY Finite, Names, FS_AddElement
  <2>2. upstream \cup Unstarted \subseteq Requests
    BY BaseTyped, Names DEF Unstarted
  <2> QED BY <2>1, <2>2, FS_Subset
<1>2. Cardinality(upstream' \cup Unstarted') <= Cardinality(upstream \cup Unstarted)
      /\ Cardinality(upstream' \cup Unstarted') \in Nat
      /\ Cardinality(upstream \cup Unstarted) \in Nat
  BY <1>1, FS_Subset, FS_CardinalityType
<1>3. count \in 0..255
  BY BaseTyped
<1> QED BY <1>2, <1>3 DEF Shares

(* The bounds are kept when nothing starts. *)
LEMMA SharesQuiet ==
    ASSUME Base, Shares, Live' = Live, count' = count, upstream' \subseteq upstream,
           \A q \in Requests : handler'[q] = "handler" => handler[q] = "handler"
    PROVE  Shares'
<1>1. Unstarted' \subseteq Unstarted
  BY LiveIs DEF Unstarted
<1> QED BY <1>1, SharesStay DEF Shares

(* A subrequest that starts keeps its share. *)
LEMMA SharesStarts ==
    ASSUME Base, Shares, Live' = Live, NEW q \in Live, q # Main, Starts(q)
    PROVE  Shares'
<1>1. /\ q \in Unstarted /\ q \in Requests /\ Live \subseteq Requests
      /\ handler \in [Requests -> HandlerTypes]
  BY LiveIs, Names, Typed DEF Unstarted, Starts
<1>2. /\ count' = count /\ upstream' \subseteq upstream \cup {q}
      /\ handler'[q] # "handler" /\ \A s \in Requests : s # q => handler'[s] = handler[s]
  BY <1>1 DEF Starts
<1>3. Unstarted' \subseteq Unstarted \ {q}
  BY <1>1, <1>2 DEF Unstarted
<1>4. /\ upstream' \cup Unstarted' \subseteq upstream \cup Unstarted
      /\ upstream' \cap Unstarted' = {}
  BY <1>1, <1>2, <1>3 DEF Shares
<1> QED BY <1>2, <1>4, SharesStay

(* A new subrequest brings its share. *)
LEMMA SharesSubrequest ==
    ASSUME Base, Shares, NEW r \in Requests, Subrequest(r)
    PROVE  Shares'
<1>0. PICK s \in Subs : s = Script(r)[pos[r] + 1]
  BY NewIs
<1>1. s \notin Live /\ Live' = Live \cup {s} /\ upstream' = upstream /\ handler' = handler
      /\ handler[s] = "handler" /\ count' = Byte(count + 1) /\ s \notin upstream
  BY <1>0, NewIs, BaseSubrequest, BaseTyped DEF Subrequest, Referred
<1>2. Unstarted' = Unstarted \cup {s} /\ s \notin Unstarted
  BY <1>1 DEF Unstarted
<1> DEFINE A == upstream \cup Unstarted
           B == Live \cap Subs
<1>3. IsFiniteSet(A) /\ IsFiniteSet(B)
  <2>1. Requests = Subs \cup {Main} /\ IsFiniteSet(Requests)
    BY Finite, Names, FS_AddElement
  <2>2. A \subseteq Requests /\ B \subseteq Requests
    BY BaseTyped, Names DEF Unstarted
  <2> QED BY <2>1, <2>2, FS_Subset
<1>4. /\ upstream' \cup Unstarted' = A \cup {s} /\ Live' \cap Subs = B \cup {s} /\ s \notin A
      /\ s \notin B
  BY <1>1, <1>2
<1>6. Cardinality(B \cup {s}) <= 200
  <2>1. B \cup {s} \in SUBSET Subs
    OBVIOUS
  <2> HIDE DEF B
  <2> QED BY <2>1, Finite
<1>7. count >= 1 + Cardinality(A) /\ count <= 1 + Cardinality(B) /\ count \in 0..255
  BY BaseTyped DEF Shares
<1>8. upstream' \cap Unstarted' = {}
  BY <1>1, <1>2 DEF Shares
<1> HIDE DEF A, B
<1>5. /\ Cardinality(A \cup {s}) = Cardinality(A) + 1 /\ Cardinality(A) \in Nat
      /\ Cardinality(B \cup {s}) = Cardinality(B) + 1 /\ Cardinality(B) \in Nat
  BY <1>3, <1>4, FS_AddElement, FS_CardinalityType
<1>9. /\ count + 1 \in 0..255 /\ count + 1 >= 1 + (Cardinality(A) + 1)
      /\ count + 1 <= 1 + (Cardinality(B) + 1)
  BY <1>5, <1>6, <1>7
<1>10. count' = count + 1
  BY <1>1, <1>7, <1>9, ByteIs
<1> QED BY <1>4, <1>5, <1>8, <1>9, <1>10 DEF Shares

(* Any handler, while a file is being read. *)
LEMMA WaitingHandle ==
    ASSUME Base, Sane, Waiting, Live' = Live, site' = site, NEW q \in Live, Handle(q),
           \/ call.fn = "posted" /\ posted # <<>>
           \/ call.fn = "event" /\ q = active /\ posted' = posted
    PROVE  Waiting' /\ alert' = alert
<1>t. /\ handler \in [Requests -> HandlerTypes] /\ reader \in [Requests -> ReaderTypes]
      /\ Main \in Requests /\ q \in Requests /\ active \in Requests /\ Subs \subseteq Requests
      /\ aio \subseteq Requests /\ upstream \subseteq Requests
  BY Typed, LiveIs, BaseTyped, Names
<1>m. \/ call.fn = "posted" /\ client.error /\ active \in aio /\ handler[active] = "finalizer"
      \/ call.fn = "event" /\ q = active /\ client.error /\ handler[active] = "finalizer" /\ posted = <<>>
      \/ call.fn = "event" /\ q = active /\ ~client.error /\ client.timedout /\ Buffered(active)
         /\ posted = <<>> /\ upstream = {} /\ aio \subseteq {active}
  BY DEF Waiting, On, Ending, Running
<1>1. CASE Starts(q)
  <2>1. q # Main /\ q # active /\ call.fn = "posted"
    BY <1>1, <1>m DEF Starts, Waiting
  <2>2. Shares'
    BY <1>1, <2>1, SharesStarts DEF Waiting
  <2>3. /\ UNCHANGED <<active, client, site, count, alert>>
        /\ handler'[active] = handler[active] /\ handler'[Main] = handler[Main]
        /\ reader'[active] = reader[active]
        /\ aio \subseteq aio' /\ upstream' \subseteq upstream \cup {q}
        /\ call'.fn \in {"content", "finalize", "posted"} /\ call'.rc = "ok"
        /\ call'.fn = "content" => call'.r = q
    BY <1>1, <1>t, <2>1 DEF Starts, Call, Return
  <2> QED BY <1>m, <2>1, <2>2, <2>3 DEF Waiting, Running, On, Ending
<1>2. CASE TerminateHandler(q)
  <2>1. q = Main
    BY <1>2, <1>t, Names DEF TerminateHandler, Sane, Requests
  <2> QED BY <1>2, <2>1 DEF TerminateHandler, Waiting
<1>3. CASE Downstream(q) \/ Flushes(q) \/ Finalizer(q) \/ Ignores(q) \/ PhasesAgain(q)
  <2>1. /\ UNCHANGED <<handler, reader, postponed, pos, done, active, count, aio, client, alert>>
        /\ site' = site /\ upstream' \subseteq upstream
    BY <1>3 DEF Downstream, Flushes, Finalizer, Ignores, PhasesAgain, body
  <2>2. Shares'
    BY <2>1, SharesQuiet DEF Waiting
  <2>3. Buffered(active)' <=> Buffered(active)
    BY <2>1 DEF Buffered, Made, Script
  <2>4. CASE q = active
    <3>1. /\ call'.fn = "finalize" /\ call'.r = active /\ call'.rc \in {"ok", "timeout"}
          /\ upstream' = upstream
      BY <1>3, <1>m, <2>4 DEF Downstream, Flushes, Finalizer, Ignores, PhasesAgain, Waiting,
         Call
    <3> QED BY <1>m, <2>1, <2>2, <2>3, <2>4, <3>1 DEF Waiting, Running, On, Ending
  <2>5. CASE q # active
    <3>1. /\ call.fn = "posted" /\ client.error /\ active \in aio
          /\ handler[active] = "finalizer"
      BY <1>m, <2>5
    <3>2. /\ call'.fn \in {"content", "flush", "finalize", "posted"} /\ call'.rc # "done"
          /\ call'.fn # "posted" => call'.r = q
      BY <1>3 DEF Downstream, Flushes, Finalizer, Ignores, PhasesAgain, Call, Return
    <3> QED BY <2>1, <2>2, <2>5, <3>1, <3>2 DEF Waiting, Running, On, Ending
  <2> QED BY <2>4, <2>5
<1> QED BY <1>1, <1>2, <1>3 DEF Handle

(* A response that is made meanwhile. *)
LEMMA WaitingContent ==
    ASSUME Base, Base', Waiting, NEW r \in Requests, Content(r)
    PROVE  Waiting' /\ alert' = alert
<1>t. /\ handler \in [Requests -> HandlerTypes] /\ reader \in [Requests -> ReaderTypes]
      /\ Main \in Requests /\ active \in Requests /\ Subs \subseteq Requests
  BY Typed, LiveIs, BaseTyped, Names
<1>m. /\ call.fn \in {"content", "flush", "written"} /\ call.r = r /\ r # active /\ client.error
      /\ active \in aio /\ handler[active] = "finalizer"
  BY DEF Content, EmitData, Subrequest, EndContent, Flush, Written, Waiting, On, Ending, Running
<1>1. CASE EmitData(r) \/ Flush(r)
  <2>1. Live' = Live
    BY <1>1, BaseEmit
  <2>2. PICK in \in Seq(AnyPart), n \in Int,
              next \in {Call("content", r, "ok"), Call("written", r, "ok"), Return} :
              /\ Writes(r, in, next, n)
              /\ Emits(r, in, next, n) \/ Drains(r, in, next, n)
    BY <1>1, WriteSteps
  <2>3. /\ UNCHANGED <<site, handler, reader, active, client, count, upstream, alert>>
        /\ call' = next /\ aio \subseteq aio'
    BY <1>m, <2>2 DEF Writes, GoesOn, Breaks, Keeps, Emits, Drains
  <2>4. Shares'
    BY <2>1, <2>3, SharesQuiet DEF Waiting
  <2>5. call'.fn \in {"content", "written", "posted"} /\ (call'.fn # "posted" => call'.r = r)
    BY <2>3 DEF Call, Return
  <2> QED BY <1>m, <2>3, <2>4, <2>5 DEF Waiting, Running, On, Ending
<1>2. CASE Subrequest(r)
  <2>1. PICK s \in Subs : s = Script(r)[pos[r] + 1] /\ s # active
    BY <1>2, NewIs, BaseTyped
  <2>2. /\ UNCHANGED <<site, handler, active, client, upstream, aio, alert>>
        /\ reader'[active] = reader[active]
        /\ call' \in {Call("content", r, "ok"), Return}
    BY <1>2, <1>m, <1>t, <2>1 DEF Subrequest, Proceed, FirstInLine
  <2>3. Shares'
    BY <1>2, SharesSubrequest DEF Waiting
  <2>5. call'.fn \in {"content", "posted"} /\ (call'.fn # "posted" => call'.r = r)
    BY <2>2 DEF Call, Return
  <2> QED BY <1>m, <2>2, <2>3, <2>5 DEF Waiting, Running, On, Ending
<1>3. CASE EndContent(r)
  <2>1. /\ UNCHANGED <<site, handler, reader, active, client, count, aio, alert>>
        /\ upstream' \subseteq upstream /\ call'.fn = "finalize" /\ call'.rc = "ok"
        /\ call'.r = r
    BY <1>3 DEF EndContent, body, Call
  <2>2. Live' = Live
    BY <2>1 DEF Live
  <2>3. Shares'
    BY <2>1, <2>2, SharesQuiet DEF Waiting
  <2> QED BY <1>m, <2>1, <2>3 DEF Waiting, Running, On, Ending
<1>4. CASE Written(r)
  <2>1. /\ UNCHANGED <<site, reader, active, client, count, aio, alert, upstream>>
        /\ handler' = handler \/ handler' = [handler EXCEPT ![r] = "empty"]
        /\ call'.fn \in {"finalize", "posted"} /\ call'.rc = "ok"
        /\ (call'.fn # "posted" => call'.r = r)
    BY <1>4 DEF Written, body, Call, Return
  <2>2. Live' = Live
    BY <2>1 DEF Live
  <2>3. Shares'
    BY <1>t, <2>1, <2>2, SharesQuiet DEF Waiting
  <2>4. /\ handler'[active] = handler[active]
        /\ handler'[Main] \in {handler[Main], "empty"}
    BY <1>m, <1>t, <2>1
  <2> QED BY <1>m, <2>1, <2>3, <2>4 DEF Waiting, Running, On, Ending
<1> QED BY <1>1, <1>2, <1>3, <1>4 DEF Content

(* A request that is finalized meanwhile. *)
LEMMA WaitingFinalize ==
    ASSUME Base, Waiting, NEW r \in Requests, Finalize(r) \/ (FinalizeMain /\ r = Main)
    PROVE  Waiting' /\ alert' = alert
<1>t. /\ handler \in [Requests -> HandlerTypes] /\ reader \in [Requests -> ReaderTypes]
      /\ Main \in Requests /\ active \in Requests /\ Subs \subseteq Requests
  BY Typed, LiveIs, BaseTyped, Names
<1>m. /\ call.fn = "finalize" /\ call.r = r /\ call.rc # "done"
      /\ \/ client.error /\ active \in aio /\ handler[active] = "finalizer" /\ r # active
         \/ client.error /\ r = active
         \/ ~client.error /\ client.timedout /\ Buffered(active) /\ r = active
            /\ posted = <<>> /\ upstream = {} /\ aio \subseteq {active}
  BY DEF Finalize, FinalizeDone, FinalizeError, FinalizeLater, FinalizeActive, FinalizeEarly,
         FinalizeMain, Finalizes, Waiting, On, Ending, Running
<1>1. CASE FinalizeError(r)
  <2>1. /\ UNCHANGED <<site, reader, active, client, count, aio, alert, upstream, posted, pos>>
        /\ call'.fn = "terminate" /\ call'.r = r
        /\ handler' = IF aio # {} THEN [handler EXCEPT ![r] = "finalizer"] ELSE handler
    BY <1>1 DEF FinalizeError, body, Call, Blocked
  <2>2. Live' = Live
    BY <2>1 DEF Live
  <2>3. Shares'
    BY <1>t, <2>1, <2>2, SharesQuiet DEF Waiting
  <2>4. /\ handler'[active] \in {handler[active], "finalizer"}
        /\ handler'[Main] \in {handler[Main], "finalizer"}
        /\ (aio # {} /\ r = active) => handler'[active] = "finalizer"
        /\ r # active => handler'[active] = handler[active]
    BY <1>t, <2>1
  <2>5. Buffered(active)' <=> Buffered(active)
    BY <2>1 DEF Buffered, Made, Script
  <2> QED BY <1>m, <2>1, <2>3, <2>4, <2>5 DEF Waiting, Running, On, Ending
<1>2. CASE FinalizeLater(r)
  <2>0. ~client.error
    BY <1>2 DEF FinalizeLater, Failed
  <2>1. /\ UNCHANGED <<site, active, client, count, aio, alert, upstream, posted, pos>>
        /\ call'.fn = "posted" /\ reader' = [reader EXCEPT ![r] = "test"]
        /\ handler' = [handler EXCEPT ![r] = "writer"]
    BY <1>2 DEF FinalizeLater, body, Call, Return
  <2>2. Live' = Live
    <3>1. r \in Live
      BY <1>m, BaseTyped DEF Fn
    <3>2. \A s \in Subs : reader'[s] # "none" <=> reader[s] # "none"
      BY <1>t, <2>1, <3>1, LiveIs
    <3> QED BY <3>2 DEF Live
  <2>3. Shares'
    BY <1>t, <2>1, <2>2, SharesQuiet DEF Waiting
  <2>4. /\ handler'[active] = "writer" /\ reader'[active] = "test"
        /\ handler'[Main] \in {handler[Main], "writer"}
    BY <1>m, <1>t, <2>0, <2>1
  <2>5. Buffered(active)' <=> Buffered(active)
    BY <2>1 DEF Buffered, Made, Script
  <2> QED BY <1>m, <2>0, <2>1, <2>3, <2>4, <2>5 DEF Waiting, Running, On, Ending
<1>3. CASE FinalizeActive(r) \/ FinalizeEarly(r) \/ (FinalizeMain /\ r = Main)
  <2>1. ~client.error /\ ~Pending(r)
    BY <1>3 DEF FinalizeActive, FinalizeEarly, FinalizeMain, Failed
  <2> QED BY <1>m, <2>1 DEF Pending, Unsent
<1>4. CASE FinalizeDone(r)
  BY <1>m, <1>4 DEF FinalizeDone
<1> QED BY <1>1, <1>2, <1>3, <1>4 DEF Finalize

(* Events that happen meanwhile. *)
LEMMA WaitingEvents ==
    ASSUME Base, Waiting, ~freed, Idle \/ Events \/ ClientLeaves
    PROVE  Waiting' /\ alert' = alert
<1>m. /\ call.fn \in {"posted", "loop"} /\ posted = <<>>
      /\ \/ client.error /\ active \in aio /\ handler[active] = "finalizer"
         \/ ~client.error /\ client.timedout /\ Buffered(active)
            /\ upstream = {} /\ aio \subseteq {active}
  BY DEF Idle, Events, ClientLeaves, UpstreamEvent, PipeAborts, AioDone, Writable,
         SendTimeout, Lingered, Waits, Waiting, On, Ending, Running
<1>1. /\ UNCHANGED <<site, handler, reader, active, count, posted, alert, pos>>
      /\ upstream' \subseteq upstream
  BY DEF Idle, Events, ClientLeaves, UpstreamEvent, PipeAborts, AioDone, Writable,
         SendTimeout, Lingered, body
<1>2. Live' = Live
  BY <1>1 DEF Live
<1>3. Shares'
  BY <1>1, <1>2, SharesQuiet DEF Waiting
<1>4. Buffered(active)' <=> Buffered(active)
  BY <1>1 DEF Buffered, Made, Script
<1>5. CASE Idle
  <2>1. UNCHANGED <<aio, client, upstream>> /\ call'.fn = "loop"
    BY <1>5 DEF Idle, body, Loop, Call
  <2> QED BY <1>m, <1>1, <1>3, <1>4, <2>1 DEF Waiting, Running, On, Ending
<1>6. CASE Writable \/ SendTimeout
  <2>1. /\ UNCHANGED <<aio, upstream>> /\ call'.fn = "event" /\ client'.error = client.error
        /\ client.timedout => client'.timedout
    BY <1>6, BaseTyped DEF Writable, SendTimeout, Call, ClientType
  <2> QED BY <1>m, <1>1, <1>3, <1>4, <2>1 DEF Waiting, Running, On, Ending
<1>7. ASSUME NEW r \in Requests, AioDone(r) PROVE Waiting'
  <2>1. UNCHANGED <<client, upstream>> /\ call'.fn = "event" /\ aio' \subseteq aio
    BY <1>7 DEF AioDone, Call
  <2> QED BY <1>m, <1>1, <1>3, <1>4, <2>1 DEF Waiting, Running, On, Ending
<1>8. ASSUME NEW r \in Requests, UpstreamEvent(r) \/ PipeAborts(r) PROVE Waiting'
  <2>1. /\ UNCHANGED <<client, aio>> /\ call'.fn \in {"content", "finalize"} /\ call'.r = r
        /\ call'.rc # "done" /\ r \in upstream
    BY <1>8 DEF UpstreamEvent, PipeAborts, Call, body
  <2>2. r # active
    BY <2>1 DEF Waiting
  <2> QED BY <1>m, <1>1, <1>3, <1>4, <2>1, <2>2 DEF Waiting, Running, On, Ending
<1>9. CASE ClientLeaves
  <2>0. reader[active] # "broken" /\ reader[active] # "linger"
    BY DEF Waiting
  <2>1. UNCHANGED <<aio, upstream>> /\ client'.timedout = client.timedout
    BY <1>9, <2>0, BaseTyped DEF ClientLeaves, ClientType
  <2>2. \/ call' = Call("finalize", active, "closed") /\ client'.error = TRUE
        \/ call' = Loop /\ client'.error = client.error
    <3>1. CASE reader[active] = "test"
      BY <1>9, <2>0, <3>1, BaseTyped DEF ClientLeaves, Noticed, ClientType
    <3>2. CASE reader[active] # "test"
      <4>1. call' = Loop
        BY <1>9, <2>0, <3>2 DEF ClientLeaves, Noticed
      <4>2. client'.error = client.error
        BY <1>9, <2>0, <3>2, BaseTyped DEF ClientLeaves, ClientType
      <4> QED BY <4>1, <4>2
    <3> QED BY <3>1, <3>2
  <2>3. \/ call'.fn = "finalize" /\ call'.r = active /\ call'.rc = "closed" /\ client'.error
        \/ call'.fn = "loop" /\ client'.error = client.error
    BY <2>2 DEF Call, Loop
  <2> QED BY <1>m, <1>1, <1>3, <1>4, <2>1, <2>3 DEF Waiting, Running, On, Ending
<1>10. ~Lingered
  BY DEF Lingered, Waiting
<1> QED BY <1>1, <1>5, <1>6, <1>7, <1>8, <1>9, <1>10 DEF Events

(* A second termination, when the file was read or its request ends. *)
LEMMA WaitingTerminate ==
    ASSUME Base, Base', Waiting, alert => again, Terminate, ~astray'
    PROVE  Torn'
<1>0. call.r \in Live
  BY BaseTyped DEF Terminate, Running, Fn
<1>r. PICK r \in Live : r = call.r
  BY <1>0
<1> DEFINE under == Cardinality(upstream)
<1>1. /\ call.fn = "terminate" /\ aio \in {{}, {r}} /\ count' = Byte(count - under)
      /\ upstream' = {} /\ call' = Return
      /\ IF aio # {} THEN UNCHANGED <<handler, posted>>
         ELSE /\ handler' = [handler EXCEPT ![Main] = "terminate"]
              /\ posted' = <<Main>>
      /\ UNCHANGED <<site, reader, pos, done, active, aio, client, again>>
      /\ alert' = (alert \/ count <= under)
  BY <1>r DEF Terminate, Running, Blocked, Alerts
<1>t. /\ handler \in [Requests -> HandlerTypes] /\ Main \in Requests
  BY Typed, Names
<1>2. Live' = Live
  BY <1>1 DEF Live
<1>3. PICK n \in Nat, w \in Nat, u \in Nat, c \in 0..255 :
         /\ n = Cardinality(Live \cap Subs) /\ w = Cardinality(Unstarted) /\ u = under
         /\ c = count
         /\ 1 + w + u <= c /\ c <= 1 + n
  <2>1. Requests = Subs \cup {Main} /\ IsFiniteSet(Requests)
    BY Finite, Names, FS_AddElement
  <2>2. upstream \cup Unstarted \subseteq Requests /\ upstream \cap Unstarted = {}
    BY BaseTyped, Names DEF Unstarted, Waiting, Shares
  <2>3. /\ under \in Nat /\ Cardinality(Unstarted) \in Nat
        /\ Cardinality(upstream \cup Unstarted) = under + Cardinality(Unstarted)
    <3>1. IsFiniteSet(Requests)
      BY <2>1
    <3> QED BY <2>2, <3>1, Fit
  <2>4. Cardinality(Live \cap Subs) \in Nat
    BY Finite
  <2>5. count \in 0..255 /\ count >= 1 + (under + Cardinality(Unstarted))
        /\ count <= 1 + Cardinality(Live \cap Subs)
    BY <2>3, BaseTyped DEF Waiting, Shares
  <2> DEFINE n == Cardinality(Live \cap Subs)
             w == Cardinality(Unstarted)
  <2>6. under \in Nat /\ n \in Nat /\ w \in Nat /\ count \in 0..255
    BY <2>3, <2>4, <2>5
  <2>7. count >= 1 + (under + w) /\ count <= 1 + n
    BY <2>5
  <2> HIDE DEF n, w, under
  <2>8. 1 + w + under <= count
    BY <2>6, <2>7
  <2> QED BY <2>6, <2>7, <2>8 DEF n, w
<1> HIDE DEF under
<1>4. /\ c - u \in 0..255 /\ c - u \in Int /\ c - u >= 1 + w /\ c - u <= 1 + n
      /\ ~(c <= u)
  BY <1>3, Difference, ZenonT(60)
<1>5. (alert' => again') /\ count' = c - u
  <2>1. ~(count <= under)
    BY <1>3, <1>4
  <2>2. Byte(c - u) = c - u
    BY <1>4, ByteIs
  <2> QED BY <1>1, <1>3, <2>1, <2>2
<1>6. CASE aio = {}
  <2>1. handler'[Main] = "terminate" /\ posted' = <<Main>>
    BY <1>1, <1>6, <1>t
  <2> QED BY <1>1, <1>5, <1>6, <2>1 DEF Torn, Reaped
<1>7. CASE aio = {r}
  <2>1. UNCHANGED <<handler, posted>>
    BY <1>1, <1>7
  <2>2. r = active
    BY <1>1, <1>7, <1>r DEF Waiting, On, Ending, Running
  <2>3. Unstarted' = Unstarted
    BY <1>2, <2>1 DEF Unstarted
  <2>4. Shares'
    <3>1. upstream' \cup Unstarted' = Unstarted /\ upstream' \cap Unstarted' = {}
      BY <1>1, <2>3
    <3> QED BY <1>2, <1>3, <1>4, <1>5, <3>1 DEF Shares
  <2>5. Buffered(active)' <=> Buffered(active)
    BY <1>1 DEF Buffered, Made, Script
  <2>6. /\ call.r = active /\ call'.fn = "posted" /\ aio' = {active} /\ upstream' = {}
        /\ UNCHANGED <<site, reader, active, client>>
    BY <1>1, <1>7, <1>r, <2>2 DEF Return, Call
  <2>7. Waiting'
    BY <1>1, <1>7, <2>1, <2>4, <2>5, <2>6 DEF Waiting, Running, On, Ending
  <2> QED BY <1>5, <2>7 DEF Torn
<1> QED BY <1>1, <1>6, <1>7

(* Every step, while a file is being read. *)
LEMMA WaitingNext ==
    ASSUME Base, Base', Sane, Waiting, alert => again, ~freed, Next, ~astray'
    PROVE  Torn' /\ ~freed'
<1>1. freed' = freed \/ FinalizeConnection \/ Close
  BY DEF Next, Work, Events, Content, Finalize, RunPosted, WriteEvent, Handle, Starts,
     Downstream, Flushes,
         Finalizer, TerminateHandler, Ignores, PhasesAgain, Idle, EmitData, Subrequest, EndContent,
         Flush, Written, FinalizeDone, FinalizeError, FinalizeLater, FinalizeActive, FinalizeEarly,
         FinalizeMain, Terminate, UpstreamEvent, PipeAborts, AioDone, Writable, SendTimeout, Lingered,
         ClientLeaves, body
<1>2. ~FinalizeConnection /\ ~Close
  BY DEF FinalizeConnection, Close, Waiting, Running
<1>3. ~freed'
  BY <1>1, <1>2
<1>4. ASSUME Waiting', alert' = alert, ~Terminate PROVE Torn'
  <2>1. again => again'
    BY <1>2, <1>4 DEF Next, Work, Events, Content, Finalize, RunPosted, WriteEvent, Handle,
       Starts, Downstream, Flushes,
         Finalizer, TerminateHandler, Ignores, PhasesAgain, Idle, EmitData, Subrequest, EndContent,
         Flush, Written, FinalizeDone, FinalizeError, FinalizeLater, FinalizeActive, FinalizeEarly,
         FinalizeMain, UpstreamEvent, PipeAborts, AioDone, Writable, SendTimeout, Lingered,
         ClientLeaves, body
  <2> QED BY <1>4, <2>1 DEF Torn
<1>5. CASE RunPosted
  <2>1. /\ Head(posted) \in Live /\ Handle(Head(posted)) /\ site' = site /\ call.fn = "posted"
        /\ posted # <<>>
    <3>1. posted # <<>> => Head(posted) \in Range(posted)
      <4>1. posted \in Seq(Requests)
        BY BaseTyped
      <4>2. posted # <<>> => 1 \in DOMAIN posted /\ Head(posted) = posted[1]
        BY <4>1
      <4> QED BY <4>2 DEF Range
    <3> QED BY <1>5, <3>1, BaseTyped DEF RunPosted, Running
  <2>2. Live' = Live
    BY <1>5, BaseOther
  <2>3. Waiting' /\ alert' = alert
    BY <2>1, <2>2, WaitingHandle
  <2>4. ~Terminate
    BY <2>1 DEF Terminate, Running
  <2> QED BY <1>3, <1>4, <2>3, <2>4
<1>6. CASE WriteEvent
  <2>1. /\ active \in Live /\ Handle(active) /\ site' = site /\ call.fn = "event"
        /\ posted' = posted
    BY <1>6, BaseTyped DEF WriteEvent, Running
  <2>2. Live' = Live
    BY <1>6, BaseOther
  <2>3. Waiting' /\ alert' = alert
    BY <2>1, <2>2, WaitingHandle
  <2>4. ~Terminate
    BY <2>1 DEF Terminate, Running
  <2> QED BY <1>3, <1>4, <2>3, <2>4
<1>7. CASE Terminate
  BY <1>3, <1>7, WaitingTerminate
<1>8. ASSUME NEW r \in Requests, Content(r) \/ Finalize(r), ~Terminate PROVE Torn'
  <2>1. Waiting' /\ alert' = alert
    BY <1>8, WaitingContent, WaitingFinalize
  <2> QED BY <1>4, <1>8, <2>1
<1>9. CASE FinalizeMain /\ ~Terminate
  <2>1. Waiting' /\ alert' = alert
    BY <1>9, WaitingFinalize, Names
  <2> QED BY <1>3, <1>4, <1>9, <2>1
<1>10. CASE (Idle \/ Events \/ ClientLeaves) /\ ~Terminate
  <2>1. Waiting' /\ alert' = alert
    BY <1>10, WaitingEvents
  <2> QED BY <1>3, <1>4, <1>10, <2>1
<1> QED BY <1>2, <1>3, <1>5, <1>6, <1>7, <1>8, <1>9, <1>10 DEF Next, Work

(* The pool goes with the last use.                                          *)
LEMMA ReapedNext ==
    ASSUME Base, Base', Sane, Reaped, alert => again, torn, ~freed, Next
    PROVE  (~freed' => Torn') /\ (freed' => Freed')
<1>1. CASE call = Return /\ posted = <<Main>>
  <2>1. call.fn = "posted" /\ Head(posted) = Main /\ posted # <<>>
    BY <1>1 DEF Return, Call
  <2>2. RunPosted
    BY <2>1 DEF Next, Work, Events, Content, Finalize, Idle, WriteEvent, EmitData, Subrequest,
       EndContent, Flush, Written,
         FinalizeDone, FinalizeError, FinalizeLater, FinalizeActive, FinalizeEarly, FinalizeMain, Finalizes,
         Terminate, FinalizeConnection, Close, UpstreamEvent, PipeAborts, AioDone, Writable,
         SendTimeout, Lingered, ClientLeaves, Waits, Running
  <2>3. TerminateHandler(Main)
    BY <2>1, <2>2 DEF RunPosted, Handle, Starts, Downstream, Flushes, Finalizer, Ignores,
       PhasesAgain, Reaped
  <2> QED BY <2>3 DEF TerminateHandler, Reaped, Torn
<1>2. CASE call = Call("close", Main, "ok") /\ count = 1
  <2>1. call.fn = "close"
    BY <1>2 DEF Call
  <2>2. Close
    BY <2>1 DEF Next, Work, Events, Content, Finalize, Idle, RunPosted, WriteEvent, EmitData,
       Subrequest, EndContent, Flush,
         Written, FinalizeDone, FinalizeError, FinalizeLater, FinalizeActive, FinalizeEarly, FinalizeMain,
         Finalizes, Terminate, FinalizeConnection, UpstreamEvent, PipeAborts, AioDone, Writable,
         SendTimeout, Lingered, ClientLeaves, Waits, Running
  <2>3. /\ UNCHANGED <<aio, upstream, torn, again>> /\ aio = {} /\ upstream = {}
        /\ freed' = (count = 1 /\ ~Blocked) /\ alert' = (alert \/ count = 0)
    BY <2>2 DEF Close, Reaped, Alerts
  <2>4. freed' /\ (alert' => alert)
    <3>1. count # 0
      BY <1>2
    <3>2. alert' => alert
      BY <2>3, <3>1
    <3>3. freed'
      BY <1>2, <2>3 DEF Blocked
    <3> QED BY <3>2, <3>3
  <2> QED BY <2>3, <2>4 DEF Freed
<1> QED BY <1>1, <1>2 DEF Reaped

(* History is kept. *)
LEMMA Marks ==
    ASSUME Next
    PROVE  /\ torn => torn'
           /\ astray => astray'
           /\ (torn' /\ ~torn) => Terminate
<1>1. CASE Terminate
  BY <1>1 DEF Terminate
<1>2. CASE ~Terminate
  <2>1. UNCHANGED <<torn, astray>>
    BY <1>2 DEF Next, Work, Events, Content, Finalize, RunPosted, WriteEvent, Handle, Starts,
       Downstream, Flushes,
         Finalizer, TerminateHandler, Ignores, PhasesAgain, Idle, EmitData, Subrequest, EndContent,
         Flush, Written, FinalizeDone, FinalizeError, FinalizeLater, FinalizeActive, FinalizeEarly,
         FinalizeMain, FinalizeConnection, Close, UpstreamEvent, PipeAborts, AioDone, Writable,
         SendTimeout, Lingered, ClientLeaves, body
  <2> QED BY <2>1
<1> QED BY <1>1, <1>2

(* Nothing happens after the end. *)
LEMMA FreedNext ==
    ASSUME Sane, freed, Next
    PROVE  /\ freed' /\ UNCHANGED <<aio, upstream, torn, alert, again, reader, done, astray>>
<1>1. Idle
  BY DEF Sane, Next, Work, Events, Content, Finalize, RunPosted, WriteEvent, EmitData,
     Subrequest, EndContent, Flush,
         Written, FinalizeDone, FinalizeError, FinalizeLater, FinalizeActive, FinalizeEarly, FinalizeMain,
         Finalizes, Terminate, FinalizeConnection, Close, UpstreamEvent, PipeAborts, AioDone, Writable,
         SendTimeout, Lingered, ClientLeaves, Waits, Running
<1> QED BY <1>1 DEF Idle, body

-----------------------------------------------------------------------------
(* The invariant *)

(* Every step keeps the invariant. *)
LEMMA InvNext ==
    ASSUME IInv, Next
    PROVE  IInv'
<1>1. Base' /\ Sane' /\ Base /\ Sane
  BY BaseNext, SaneNext DEF IInv
<1>2. CASE freed
  <2>1. /\ freed' /\ UNCHANGED <<aio, upstream, torn, alert, again, reader, done, astray>>
    BY <1>1, <1>2, FreedNext
  <2>2. ~astray => Freed'
    BY <1>2, <2>1 DEF IInv, Freed, Unfinished
  <2> QED BY <1>1, <2>1, <2>2 DEF IInv
<1>3. CASE ~freed /\ ~torn
  <2>0. Untorn
    BY <1>3 DEF IInv
  <2>1. (~torn' /\ ~freed') => Untorn'
    BY <1>1, <1>3, <2>0, UntornNext
  <2>2. (torn' /\ ~astray' /\ ~freed') => Torn'
    BY <1>1, <1>3, <2>0, Marks, TerminateUntorn
  <2>3. freed' => Freed'
    BY <1>1, <1>3, <2>0, FreedAtLast
  <2> QED BY <1>1, <2>1, <2>2, <2>3 DEF IInv
<1>4. CASE ~freed /\ torn
  <2>1. torn' /\ (astray => astray')
    BY <1>4, Marks
  <2>2. ASSUME ~astray' PROVE (~freed' => Torn') /\ (freed' => Freed')
    <3>1. Torn
      BY <1>4, <2>1, <2>2 DEF IInv
    <3>2. alert => again
      BY <3>1 DEF Torn
    <3>3. CASE Reaped
      BY <1>1, <1>4, <3>2, <3>3, ReapedNext
    <3>4. CASE Waiting
      BY <1>1, <1>4, <2>2, <3>2, <3>4, WaitingNext
    <3> QED BY <3>1, <3>3, <3>4 DEF Torn
  <2> QED BY <1>1, <2>1, <2>2 DEF IInv
<1> QED BY <1>2, <1>3, <1>4

(* The invariant holds at first. *)
LEMMA InvInit ==
    ASSUME Init
    PROVE  IInv
<1>1. /\ Base /\ Live = {Main} /\ Main \in Requests /\ Main \notin Subs
      /\ ~freed /\ ~torn /\ ~astray /\ ~again /\ ~alert
  BY BaseInit, Names DEF Init, Live
<1>2. /\ call.fn = "posted" /\ call.r = NoRequest /\ posted = <<Main>>
      /\ upstream = {} /\ done = {} /\ aio = {} /\ active = Main /\ count = 1
      /\ \A r \in Requests : handler[r] = "handler" /\ reader[r] = "none" /\ postponed[r] = <<>> /\ pos[r] = -1
      /\ ~client.error /\ ~client.timedout
  BY ReturnIs DEF Init, NotStarted
<1>3. Unfinished = {}
  BY <1>1, UnfinishedIs
<1>4. Sane
  BY <1>1, <1>2, Names DEF Sane
<1>5. Calls /\ Handlers /\ Finished /\ Broken
  BY <1>1, <1>2 DEF Calls, Handlers, Finished, Broken, On, Ending, Running
<1>6. Counted
  BY <1>1, <1>2, <1>3, FS_EmptySet DEF Counted
<1>7. Lead({Main})
  BY <1>1, <1>2, <1>3 DEF Lead, Undone
<1>8. {Main} \in SUBSET Requests
  BY <1>1
<1>9. Lists /\ LastData /\ Ancestry
  BY <1>1, <1>2, <1>3 DEF Lists, LastData, Ancestry
<1>10. Tree
  BY <1>7, <1>8, <1>9 DEF Tree
<1> QED BY <1>1, <1>4, <1>5, <1>6, <1>10 DEF IInv, Untorn

(* The invariant holds always. *)
LEMMA InvAlways == Spec => []IInv
<1>1. ASSUME IInv, [Next]_vars PROVE IInv'
  <2>1. CASE Next
    BY <1>1, <2>1, InvNext
  <2>2. CASE UNCHANGED vars
    <3>1. Base'
      BY <1>1, BaseNext DEF IInv
    <3>2. UNCHANGED <<site, call, handler, reader, postponed, pos, upstream, done, active, posted, count,
                      aio, client, out, freed, torn, astray, again, alert>>
      BY <2>2 DEF vars
    <3>3. /\ Live' = Live /\ Unfinished' = Unfinished /\ Undone' = Undone
          /\ Unstarted' = Unstarted
          /\ \A r : Buffered(r)' <=> Buffered(r)
          /\ \A r : Made(r)' <=> Made(r)
          /\ \A r : Script(r)' = Script(r)
      BY <3>2 DEF Live, Unfinished, Undone, Unstarted, Buffered, Made, Script
    <3>4. /\ Sane' = Sane /\ Calls' = Calls /\ Finished' = Finished
      BY <3>2, <3>3 DEF Sane, Calls, Finished, On, Ending, Running
    <3>5. Tree => Tree'
      BY <3>2, <3>3, TreeStays
    <3>6. (Handlers => Handlers') /\ (Broken => Broken')
      BY <3>2, <3>3 DEF Handlers, Broken, On, Ending, Running
    <3>7. (Counted => Counted') /\ (Torn => Torn') /\ (Freed => Freed')
      BY <3>2, <3>3 DEF Counted, Torn, Reaped, Waiting, Shares, Freed, On, Ending, Running
    <3> QED BY <1>1, <3>1, <3>2, <3>4, <3>5, <3>6, <3>7 DEF IInv, Untorn
  <2> QED BY <1>1, <2>1, <2>2
<1> QED BY <1>1, InvInit, PTL DEF Spec

(* r->main->count is the main request and its unfinished subrequests for as   *)
(* long as none was terminated; and whenever ngx_http_free_request() frees    *)
(* the pool, no file is read into it, no upstream answers into it, and no     *)
(* subrequest is unfinished unless all of them were terminated (but for a     *)
(* termination while a file was read for another part of the page).           *)
THEOREM CountCorrect == Spec => []CountIsKept
<1>1. IInv => CountIsKept
  BY DEF IInv, Untorn, Counted, Freed, CountIsKept
<1> QED BY <1>1, InvAlways, PTL

(* What the code logs as impossible does not happen: the count is never zero *)
(* before its last use, the main request does not end while a subrequest may *)
(* send, and no subrequest ends twice, unless phases ran again or the request *)
(* was terminated while a file was read for another part of the page.         *)
THEOREM AlertCorrect == Spec => []NoAlert
<1>1. IInv => NoAlert
  BY DEF IInv, Untorn, Counted, Torn, Freed, NoAlert
<1> QED BY <1>1, InvAlways, PTL
-----------------------------------------------------------------------------
(* Where the responses of a page stand *)

(* Above(r) is the least set with r that holds, with a subrequest, the       *)
(* request in whose response it stands.                                      *)
LEMMA AboveIs ==
    ASSUME site \in Sites, NEW r \in Requests
    PROVE  /\ r \in Above(r) /\ Above(r) \subseteq Requests
           /\ \A p \in Requests : \A i \in DOMAIN Script(p) :
                 Script(p)[i] \in Above(r) => p \in Above(r)
<1>1. Above(r) = {q \in Requests : \A A \in SUBSET Requests :
                     (r \in A /\ \A p \in Requests : Range(Script(p)) \cap A # {} => p \in A)
                        => q \in A}
  BY DEF Above, Around, Script
<1>2. r \in Above(r) /\ Above(r) \subseteq Requests
  BY <1>1
<1>3. ASSUME NEW p \in Requests, NEW i \in DOMAIN Script(p), Script(p)[i] \in Above(r)
      PROVE  p \in Above(r)
  <2> SUFFICES ASSUME NEW A \in SUBSET Requests, r \in A,
                      \A q \in Requests : Range(Script(q)) \cap A # {} => q \in A
               PROVE  p \in A
    BY <1>1
  <2>1. Script(p)[i] \in A
    BY <1>1, <1>3
  <2>2. Range(Script(p)) \cap A # {}
    BY <2>1 DEF Range
  <2> QED BY <2>2
<1> QED BY <1>2, <1>3

(* What stands above r is in every set that has r and is closed upwards. *)
LEMMA AboveLeast ==
    ASSUME site \in Sites, NEW r \in Requests, NEW A \in SUBSET Requests, r \in A,
           \A p \in Requests : \A i \in DOMAIN Script(p) : Script(p)[i] \in A => p \in A
    PROVE  Above(r) \subseteq A
<1>1. Above(r) = {q \in Requests : \A B \in SUBSET Requests :
                     (r \in B /\ \A p \in Requests : Range(Script(p)) \cap B # {} => p \in B)
                        => q \in B}
  BY DEF Above, Around, Script
<1>2. \A p \in Requests : Range(Script(p)) \cap A # {} => p \in A
  BY DEF Range
<1> QED BY <1>1, <1>2

(* What stands above a request that stands above r. *)
LEMMA AboveOver ==
    ASSUME site \in Sites, NEW r \in Requests, NEW p \in Above(r)
    PROVE  Above(p) \subseteq Above(r)
<1>1. p \in Requests /\ Above(r) \in SUBSET Requests
  BY AboveIs
<1>2. \A q \in Requests : \A i \in DOMAIN Script(q) : Script(q)[i] \in Above(r) => q \in Above(r)
  BY AboveIs
<1> QED BY <1>1, <1>2, AboveLeast

(* The items of a response. *)
LEMMA ScriptItem ==
    ASSUME site \in Sites, NEW p \in Requests, NEW i \in DOMAIN Script(p)
    PROVE  /\ Script(p)[i] \in Subs \cup {Data} /\ i \in Nat \ {0}
           /\ i \in 1..Len(Script(p)) /\ Len(Script(p)) \in Nat
           /\ \A A \in SUBSET Requests : Script(p)[i] \in A => Script(p)[i] \in Subs
<1>1. Script(p) \in Seq(Subs \cup {Data})
  BY SiteType
<1>2. DOMAIN Script(p) = 1..Len(Script(p)) /\ Len(Script(p)) \in Nat
  BY <1>1
<1> QED BY <1>1, <1>2, Names

(* Nothing stands above the main request, and above a subrequest there is    *)
(* the request that makes it.                                                *)
LEMMA AboveMain == ASSUME site \in Sites PROVE Above(Main) = {Main}
<1>1. \A p \in Requests : \A i \in DOMAIN Script(p) : Script(p)[i] # Main
  BY ScriptItem, Names
<1> QED BY <1>1, AboveIs, AboveLeast, Names

(* Above a subrequest is itself and what is above its parent. *)
LEMMA AboveSub ==
    ASSUME site \in Sites, NEW p \in Requests, NEW i \in DOMAIN Script(p), Script(p)[i] \in Subs
    PROVE  Above(Script(p)[i]) = {Script(p)[i]} \cup Above(p)
<1> DEFINE s == Script(p)[i]
           A == {s} \cup Above(p)
<1>n. s \in Requests
  BY Names
<1>1. A \in SUBSET Requests /\ s \in A
  BY <1>n, AboveIs
<1>2. ASSUME NEW q \in Requests, NEW j \in DOMAIN Script(q), Script(q)[j] \in A
      PROVE  q \in A
  <2>1. CASE Script(q)[j] = s
    <3>1. q = p
      BY <2>1, SiteType
    <3> QED BY <3>1, AboveIs
  <2>2. CASE Script(q)[j] \in Above(p)
    BY <2>2, AboveIs
  <2> QED BY <1>2, <2>1, <2>2
<1>3. Above(s) \subseteq A
  <2> HIDE DEF A, s
  <2> QED BY <1>n, <1>1, <1>2, AboveLeast
<1>4. s \in Above(s) /\ p \in Above(s)
  BY <1>n, AboveIs
<1>5. Above(p) \subseteq Above(s)
  BY <1>n, <1>4, AboveOver
<1> QED BY <1>3, <1>4, <1>5

(* A branch leaves a set of requests with a subrequest that one of them makes. *)
LEMMA Leaves ==
    ASSUME site \in Sites, NEW q \in Requests, NEW B, NEW r \in B, r \in Above(q), q \notin B
    PROVE  \E p \in B \cap Requests : \E m \in DOMAIN Script(p) :
              /\ Script(p)[m] \in Above(q) \ B
              /\ Script(p)[m] \in Subs /\ Parent(Script(p)[m]) = p
<1>1. SUFFICES ASSUME \A p \in B \cap Requests : \A m \in DOMAIN Script(p) :
                         Script(p)[m] \notin Above(q) \ B
               PROVE  FALSE
  <2>p. PICK p \in B \cap Requests : \E m \in DOMAIN Script(p) : Script(p)[m] \in Above(q) \ B
    BY <1>1
  <2>1. PICK m \in DOMAIN Script(p) : Script(p)[m] \in Above(q) \ B
    BY <2>p
  <2>2. Script(p)[m] \in Subs
    BY <2>1, ScriptItem, AboveIs
  <2>3. Parent(Script(p)[m]) = p
    BY <2>2, ParentIs
  <2> QED BY <2>1, <2>2, <2>3
<1> DEFINE A == Above(q) \ B
<1>2. A \in SUBSET Requests /\ q \in A
  BY AboveIs
<1>3. ASSUME NEW p \in Requests, NEW m \in DOMAIN Script(p), Script(p)[m] \in A
      PROVE  p \in A
  <2>1. p \in Above(q)
    BY <1>3, AboveIs
  <2>2. p \notin B
    BY <1>1, <1>3
  <2> QED BY <2>1, <2>2
<1>4. Above(q) \subseteq A
  <2> HIDE DEF A
  <2> QED BY <1>2, <1>3, AboveLeast
<1> QED BY <1>4

(* The item of r in whose response q stands. *)
LEMMA Leads ==
    ASSUME site \in Sites, NEW q \in Requests, NEW r \in Above(q), q # r
    PROVE  \E m \in DOMAIN Script(r) : /\ Script(r)[m] \in Above(q)
                                       /\ Script(r)[m] \in Subs /\ Parent(Script(r)[m]) = r
<1>1. r \in {r} /\ q \notin {r}
  OBVIOUS
<1>2. \E p \in {r} \cap Requests : \E m \in DOMAIN Script(p) :
         /\ Script(p)[m] \in Above(q) \ {r}
         /\ Script(p)[m] \in Subs /\ Parent(Script(p)[m]) = p
  BY <1>1, Leaves
<1> QED BY <1>2

(* A request of the page does not stand in the response to one it makes. *)
LEMMA NoLoop ==
    ASSUME site \in Sites, NEW p \in Requests, Main \in Above(p),
           NEW i \in DOMAIN Script(p), Script(p)[i] \in Subs
    PROVE  Script(p)[i] \notin Above(p)
<1> DEFINE s == Script(p)[i]
           D == {q \in Requests : s \in Above(q)}
<1>1. SUFFICES ASSUME s \in Above(p) PROVE FALSE
  OBVIOUS
<1>2. D \in SUBSET Requests /\ p \in D
  BY <1>1
<1>3. ASSUME NEW q \in Requests, NEW j \in DOMAIN Script(q), Script(q)[j] \in D
      PROVE  q \in D
  <2>1. Script(q)[j] \in Subs /\ s \in Above(Script(q)[j])
    BY <1>3, ScriptItem
  <2>2. s = Script(q)[j] \/ s \in Above(q)
    BY <2>1, AboveSub
  <2>3. CASE s = Script(q)[j]
    <3>1. q = p
      BY <2>3, SiteType
    <3> QED BY <3>1, <1>2
  <2>4. CASE s \in Above(q)
    BY <2>4
  <2> QED BY <2>2, <2>3, <2>4
<1>4. Above(p) \subseteq D
  <2> HIDE DEF D
  <2> QED BY <1>2, <1>3, AboveLeast
<1>5. s \in Above(Main)
  BY <1>4
<1> QED BY <1>5, AboveMain, Names

(* What comes before an item comes before all that stands in its response. *)
LEMMA BeforeItem ==
    ASSUME site \in Sites, NEW q \in Requests, NEW e \in DOMAIN Script(q),
           NEW x, Before(x, <<q, e>>), NEW y, y[1] \in Requests,
           y = <<q, e>> \/ Script(q)[e] \in Above(y[1])
    PROVE  Before(x, y)
<1>p. PICK p \in Requests : \E a \in Toward(p, x), b \in Toward(p, <<q, e>>) : a < b
  BY DEF Before
<1>1. PICK a \in Toward(p, x), b \in Toward(p, <<q, e>>) : a < b
  BY <1>p
<1>2. b \in Toward(p, y)
  <2>1. CASE y = <<q, e>>
    BY <2>1, <1>1
  <2>2. CASE Script(q)[e] \in Above(y[1])
    <3>1. q \in Above(y[1])
      BY <2>2, AboveIs
    <3>2. Above(q) \subseteq Above(y[1])
      BY <3>1, AboveOver
    <3>3. b \in DOMAIN Script(p) /\ (<<q, e>> = <<p, b>> \/ Script(p)[b] \in Above(q))
      BY <1>1 DEF Toward
    <3>4. Script(p)[b] \in Above(y[1])
      BY <2>2, <3>2, <3>3
    <3> QED BY <3>3, <3>4 DEF Toward
  <2> QED BY <2>1, <2>2
<1> QED BY <1>1, <1>2 DEF Before
-----------------------------------------------------------------------------
(* Who still makes a response *)

(* Functions of a request that makes nothing of its response any more, but   *)
(* for what the copy filter has.                                             *)
Late == {"flush", "written", "finalize", "terminate"}

Apart ==
    /\ \A r \in upstream : handler[r] = "upstream"
    /\ call.fn \in Late => call.r \notin upstream /\ handler[call.r] # "handler"
    /\ \A r \in Requests : reader[r] \in {"test", "broken"} => handler[r] # "handler"
    /\ \A r \in Requests : reader[r] = "test" => r \notin upstream

(* When less is made and only late functions are called, Apart stays. *)
LEMMA ApartStays ==
    ASSUME Base, Apart, upstream' \subseteq upstream,
           \A r \in Requests : handler'[r] = handler[r] \/ (handler'[r] # "handler" /\ r \notin upstream),
           \A r \in Requests : reader'[r] = reader[r] \/ reader'[r] \notin {"test", "broken"},
           call'.fn \in Late => /\ call'.r \in Requests /\ call'.r \notin upstream'
                                /\ handler'[call'.r] # "handler"
    PROVE  Apart'
<1>1. upstream \subseteq Requests
  BY BaseTyped
<1>2. \A r \in upstream' : handler'[r] = "upstream"
  BY <1>1 DEF Apart
<1>3. \A r \in Requests : reader'[r] \in {"test", "broken"} => handler'[r] # "handler"
  BY DEF Apart
<1>4. \A r \in Requests : reader'[r] = "test" => r \notin upstream'
  BY DEF Apart
<1> QED BY <1>2, <1>3, <1>4 DEF Apart

(* A request that has made something has left its first handler. *)
LEMMA HasBegun ==
    ASSUME Base
    PROVE  /\ \A r \in upstream : handler[r] # "handler"
           /\ Running("content") => call.r \in Requests /\ handler[call.r] # "handler"
           /\ call.fn \in Late => call.r \in Requests
<1>1. \A r \in Requests : handler[r] = "handler" => pos[r] = NotStarted
  BY DEF Base, Started
<1>2. \A r \in upstream : r \in Requests /\ pos[r] >= 0
  BY BaseTyped DEF Base, Started
<1>3. Running("content") => call.r \in Requests /\ pos[call.r] >= 0
  BY BaseTyped, LiveIs DEF Base, Started, Running, Fn
<1>4. call.fn \in Late => call.r \in Requests
  BY BaseTyped, LiveIs DEF Late, Fn
<1> QED BY <1>1, <1>2, <1>3, <1>4 DEF NotStarted

(* Apart, when a request is handled or read from. *)
LEMMA ApartHandle ==
    ASSUME Base, Apart, NEW r \in Requests, Handle(r)
    PROVE  Apart'
<1>t. /\ handler \in [Requests -> HandlerTypes] /\ reader \in [Requests -> ReaderTypes]
      /\ upstream \subseteq Requests
  BY Typed, BaseTyped
<1>1. CASE Starts(r)
  <2>0. handler[r] = "handler" /\ r \notin upstream
    BY <1>1, HasBegun DEF Starts
  <2>1. CASE site.kind[r] # "proxy"
    <3>1. /\ handler' = [handler EXCEPT ![r] = "phases"] /\ upstream' = upstream /\ reader' = reader
          /\ call'.r = r
      BY <1>1, <2>1 DEF Starts, Call
    <3> QED BY <1>t, <2>0, <3>1, ApartStays
  <2>2. CASE site.kind[r] = "proxy"
    <3>1. /\ handler' = [handler EXCEPT ![r] = "upstream"] /\ upstream' = upstream \cup {r}
          /\ reader' = [reader EXCEPT ![r] = "broken"] /\ call' = Return
      BY <1>1, <2>2 DEF Starts
    <3>2. \A q \in Requests : q # r => handler'[q] = handler[q] /\ reader'[q] = reader[q]
      BY <1>t, <3>1
    <3>3. handler'[r] = "upstream" /\ reader'[r] = "broken" /\ call'.fn \notin Late
      BY <1>t, <3>1, ReturnIs DEF Late
    <3> QED BY <1>t, <3>1, <3>2, <3>3 DEF Apart
  <2> QED BY <2>1, <2>2
<1>2. CASE Downstream(r)
  <2>1. UNCHANGED <<handler, reader>> /\ handler[r] = "upstream"
    BY <1>2 DEF Downstream
  <2>2. /\ upstream' \subseteq upstream
        /\ call'.fn \in Late => call'.r = r /\ r \notin upstream'
    BY <1>2 DEF Downstream, Call, Return, Late
  <2> QED BY <2>1, <2>2, ApartStays
<1>3. CASE Flushes(r)
  <2>1. UNCHANGED <<handler, reader, upstream>> /\ handler[r] = "writer" /\ r \notin upstream
    BY <1>3 DEF Flushes, Apart
  <2>2. call'.fn \in Late => call'.r = r
    BY <1>3 DEF Flushes, Call, Return, Late
  <2> QED BY <2>1, <2>2, ApartStays
<1>4. CASE Finalizer(r) \/ PhasesAgain(r)
  <2>1. UNCHANGED <<handler, reader, upstream>> /\ handler[r] # "handler" /\ r \notin upstream
    BY <1>4 DEF Finalizer, PhasesAgain, Apart
  <2>2. call'.r = r
    BY <1>4 DEF Finalizer, PhasesAgain, Call
  <2> QED BY <2>1, <2>2, ApartStays
<1>5. CASE TerminateHandler(r) \/ Ignores(r)
  <2>1. UNCHANGED <<handler, reader, upstream>>
    BY <1>5 DEF TerminateHandler, Ignores
  <2>2. call'.fn \notin Late
    BY <1>5 DEF TerminateHandler, Ignores, Call, Return, Late
  <2> QED BY <2>1, <2>2, ApartStays
<1> QED BY <1>1, <1>2, <1>3, <1>4, <1>5 DEF Handle

(* In all steps *)
LEMMA ApartNext ==
    ASSUME Base, Apart, [Next]_vars
    PROVE  Apart'
<1>t. /\ handler \in [Requests -> HandlerTypes] /\ reader \in [Requests -> ReaderTypes]
      /\ upstream \subseteq Requests /\ active \in Requests /\ Main \in Requests
      /\ Range(posted) \subseteq Requests /\ posted \in Seq(Requests)
  BY Typed, BaseTyped, LiveIs, Names
<1>c. call.fn \in Late => /\ call.r \in Requests /\ call.r \notin upstream
                          /\ handler[call.r] # "handler"
  BY HasBegun DEF Apart
<1>r. Return.fn \notin Late /\ Loop.fn \notin Late
  BY ReturnIs DEF Late
<1>0. CASE UNCHANGED vars
  BY <1>0, <1>c, ApartStays DEF vars
<1>1. CASE RunPosted
  <2>1. Head(posted) \in Requests
    BY <1>1, <1>t DEF RunPosted
  <2> QED BY <1>1, <2>1, ApartHandle DEF RunPosted
<1>2. CASE WriteEvent
  BY <1>2, <1>t, ApartHandle DEF WriteEvent
<1>3. CASE Idle \/ Lingered \/ FinalizeConnection \/ Close
  <2>1. UNCHANGED <<handler, upstream>> /\ call'.fn \notin Late
    BY <1>3, <1>r DEF Idle, Lingered, FinalizeConnection, Close, Call, Late
  <2>2. \A r \in Requests : reader'[r] = reader[r] \/ reader'[r] \notin {"test", "broken"}
    BY <1>3, <1>t DEF Idle, Lingered, FinalizeConnection, Close
  <2> QED BY <2>1, <2>2, ApartStays
<1>4. ASSUME NEW r \in Requests, EmitData(r) \/ Flush(r) PROVE Apart'
  <2>1. PICK in \in Seq(AnyPart), n \in Int,
             next \in {Call("content", r, "ok"), Call("written", r, "ok"), Return} :
              /\ Writes(r, in, next, n)
              /\ Emits(r, in, next, n) \/ Drains(r, in, next, n)
    BY <1>4, WriteSteps
  <2>2. UNCHANGED <<handler, reader>>
    BY <2>1 DEF Writes
  <2>3. handler[r] # "handler"
    BY <2>1, <1>c, HasBegun DEF Emits, Drains, Running, Late
  <2>4. \/ upstream' = upstream /\ call' = next
        \/ upstream' = upstream \ {r} /\ call' = Call("finalize", r, "error")
    BY <2>1 DEF Writes, GoesOn, Breaks
  <2>5. call'.fn \in Late => call'.r = r
    BY <2>1, <2>4 DEF Call, Return, Late
  <2>6. (call' = next /\ call'.fn \in Late) => r \notin upstream
    BY <2>1, <1>c DEF Emits, Drains, Proceed, Running, Call, Return, Late
  <2> QED BY <2>2, <2>3, <2>4, <2>5, <2>6, ApartStays
<1>5. ASSUME NEW r \in Requests, Subrequest(r) PROVE Apart'
  <2>1. /\ UNCHANGED <<handler, upstream>>
        /\ reader' = [reader EXCEPT ![Script(r)[pos[r] + 1]] = "empty"]
        /\ call' \in Proceed(r)
    BY <1>5 DEF Subrequest
  <2>2. call'.fn \notin Late
    BY <2>1 DEF Proceed, Call, Return, Late
  <2>3. \A q \in Requests : reader'[q] = reader[q] \/ reader'[q] \notin {"test", "broken"}
    BY <2>1, <1>t
  <2> QED BY <2>1, <2>2, <2>3, ApartStays
<1>6. ASSUME NEW r \in Requests, EndContent(r) PROVE Apart'
  <2>1. /\ UNCHANGED <<handler, reader>> /\ upstream' = upstream \ {r}
        /\ call'.r = r /\ Running("content") /\ call.r = r
    BY <1>6 DEF EndContent, Call
  <2>2. handler[r] # "handler"
    BY <2>1, HasBegun
  <2> QED BY <2>1, <2>2, ApartStays
<1>7. ASSUME NEW r \in Requests, Written(r) \/ FinalizeError(r) \/ FinalizeEarly(r) PROVE Apart'
  <2>1. call.fn \in Late /\ call.r = r
    BY <1>7 DEF Written, FinalizeError, FinalizeEarly, Finalizes, Running, Late
  <2>2. /\ UNCHANGED <<reader, upstream>>
        /\ call'.fn \in Late => call'.r = r
        /\ \/ handler' = handler
           \/ \E h \in {"empty", "finalizer"} : handler' = [handler EXCEPT ![r] = h]
    BY <1>7, <1>r DEF Written, FinalizeError, FinalizeEarly, Call
  <2>3. \A q \in Requests : \/ handler'[q] = handler[q]
                            \/ q = r /\ handler'[q] # "handler"
    BY <1>t, <2>2
  <2> QED BY <1>c, <2>1, <2>2, <2>3, ApartStays
<1>8. ASSUME NEW r \in Requests, FinalizeLater(r) PROVE Apart'
  <2>1. call.fn \in Late /\ call.r = r
    BY <1>8 DEF FinalizeLater, Finalizes, Running, Late
  <2>2. /\ upstream' = upstream /\ call'.fn \notin Late
        /\ handler' = [handler EXCEPT ![r] = "writer"] /\ reader' = [reader EXCEPT ![r] = "test"]
    BY <1>8, <1>r DEF FinalizeLater
  <2>3. \A q \in Requests : q # r => handler'[q] = handler[q] /\ reader'[q] = reader[q]
    BY <1>t, <2>2
  <2>4. handler'[r] = "writer" /\ reader'[r] = "test" /\ r \notin upstream
    BY <1>t, <1>c, <2>1, <2>2
  <2> QED BY <1>t, <2>2, <2>3, <2>4 DEF Apart
<1>9. ASSUME NEW r \in Requests, FinalizeActive(r) \/ FinalizeDone(r) PROVE Apart'
  <2>1. UNCHANGED <<handler, reader, upstream>> /\ call'.fn \notin Late
    BY <1>9, <1>r DEF FinalizeActive, FinalizeDone, Call, Late
  <2> QED BY <2>1, ApartStays
<1>10. CASE FinalizeMain
  <2>1. call.fn \in Late /\ call.r = Main
    BY <1>10 DEF FinalizeMain, Finalizes, Running, Late
  <2>2. /\ UNCHANGED <<reader, upstream>> /\ call'.fn \notin Late
        /\ handler' = handler \/ handler' = [handler EXCEPT ![Main] = "empty"]
    BY <1>10, <1>r DEF FinalizeMain, Call, Late
  <2>3. \A q \in Requests : \/ handler'[q] = handler[q]
                            \/ q = Main /\ handler'[q] # "handler"
    BY <1>t, <2>2
  <2> QED BY <1>c, <2>1, <2>2, <2>3, ApartStays
<1>11. CASE Terminate
  <2>1. /\ reader' = reader /\ upstream' = {} /\ call'.fn \notin Late
        /\ handler' = handler \/ handler' = [handler EXCEPT ![Main] = "terminate"]
    BY <1>11, <1>r DEF Terminate
  <2>2. \A q \in Requests : handler'[q] = handler[q] \/ handler'[q] = "terminate"
    BY <1>t, <2>1
  <2> QED BY <1>t, <2>1, <2>2 DEF Apart
<1>12. ASSUME NEW r \in Requests, UpstreamEvent(r) \/ PipeAborts(r) \/ AioDone(r) PROVE Apart'
  <2>1. /\ UNCHANGED <<handler, reader>> /\ upstream' \subseteq upstream
        /\ call'.fn \in Late => call'.r = r /\ r \in upstream /\ r \notin upstream'
    BY <1>12 DEF UpstreamEvent, PipeAborts, AioDone, Call, Late
  <2> QED BY <2>1, HasBegun, ApartStays
<1>13. CASE Writable \/ SendTimeout
  <2>1. UNCHANGED <<handler, reader, upstream>> /\ call'.fn \notin Late
    BY <1>13 DEF Writable, SendTimeout, Call, Late
  <2> QED BY <2>1, ApartStays
<1>14. CASE ClientLeaves
  <2>1. /\ UNCHANGED <<handler, reader>>
        /\ upstream' = IF reader[active] = "broken" THEN upstream \ {active} ELSE upstream
        /\ call' = Noticed(active)
    BY <1>14 DEF ClientLeaves
  <2>2. call'.fn \in Late => call'.r = active /\ reader[active] \in {"test", "broken"}
    BY <2>1 DEF Noticed, Call, Loop, Late
  <2> QED BY <1>t, <2>1, <2>2, ApartStays DEF Apart
<1> QED BY <1>0, <1>1, <1>2, <1>3, <1>4, <1>5, <1>6, <1>7, <1>8, <1>9, <1>10, <1>11, <1>12,
           <1>13, <1>14 DEF Next, Work, Events, Content, Finalize
-----------------------------------------------------------------------------
(* The order of the parts that were sent *)

(* The item e of a response as it stands in a list, the items that do, and   *)
(* who makes items of its response.                                          *)
ItemAt(q, e) == IF Script(q)[e] = Data THEN <<q, e>> ELSE Script(q)[e]

InList(q) == {e \in DOMAIN Script(q) : ItemAt(q, e) \in Range(postponed[q])}

Makes(q) == \/ handler[q] = "handler" \/ q \in upstream
            \/ Running("content") /\ call.r = q
            \/ Buffered(q)

(* Items from which something is still to be sent, but those that have sent: *)
(* they wait in the list, or are to be made.                                 *)
Ahead(q) == {e \in DOMAIN Script(q) : \/ e \in InList(q) /\ Script(q)[e] \notin Above(active)
                                      \/ e > pos[q] /\ Makes(q)}

(* Every request that exists stands in the page. *)
Rooted == \A r \in Live : Main \in Above(r) /\ Above(r) \subseteq Live

(* A list holds items that were made, in their order. *)
InTurn == \A q \in Requests :
    /\ \A k \in DOMAIN postponed[q] : \E e \in 1..pos[q] : postponed[q][k] = ItemAt(q, e)
    /\ \A k, l \in DOMAIN postponed[q] : \A e, f \in DOMAIN Script(q) :
          (k < l /\ postponed[q][k] = ItemAt(q, e) /\ postponed[q][l] = ItemAt(q, f)) => e < f

(* Nothing in a list comes before the branch of the request that may send. *)
Leading == \A p \in Requests : \A k \in DOMAIN Script(p) :
              Script(p)[k] \in Above(active) => \A e \in InList(p) : k <= e

(* A request from which something is still to be sent is on that branch, or  *)
(* a list holds it or one above it up to the branch.                         *)
Attached == \A q \in Live : Ahead(q) # {} =>
               \A c \in Above(q) \cap Subs : c \in Above(active) \/ c \in Range(postponed[Parent(c)])

(* What was sent comes before all that is still to be sent. *)
Behind == \A x \in Range(out), q \in Live : \A e \in Ahead(q) : Before(x, <<q, e>>)

Sorted == /\ Range(out) \subseteq Whole
          /\ \A i, j \in DOMAIN out : i < j => Before(out[i], out[j])

Ordering == Rooted /\ InTurn /\ Leading /\ Attached /\ Behind /\ Sorted

(* The page stays. *)
LEMMA PageStays ==
    ASSUME site' = site
    PROVE  /\ \A r : Above(r)' = Above(r) /\ Script(r)' = Script(r) /\ Parent(r)' = Parent(r)
           /\ \A q, e : ItemAt(q, e)' = ItemAt(q, e)
           /\ \A p, y : Toward(p, y)' = Toward(p, y)
           /\ \A y, z : Before(y, z)' <=> Before(y, z)
           /\ Whole' = Whole
<1>1. \A r : Above(r)' = Above(r) /\ Script(r)' = Script(r) /\ Parent(r)' = Parent(r)
  BY DEF Above, Script, Parent
<1>2. \A q, e : ItemAt(q, e)' = ItemAt(q, e)
  BY DEF ItemAt, Script
<1>3. \A p, y : Toward(p, y)' = Toward(p, y)
  BY DEF Toward, Above, Script
<1>4. \A y, z : Before(y, z)' <=> Before(y, z)
  BY <1>3 DEF Before
<1>5. Whole' = Whole
  BY DEF Whole, Above, Script
<1> QED BY <1>1, <1>2, <1>3, <1>4, <1>5

(* Two items of a response are different things. *)
LEMMA ItemsDiffer ==
    ASSUME site \in Sites, NEW q \in Requests,
           NEW e \in DOMAIN Script(q), NEW f \in DOMAIN Script(q), ItemAt(q, e) = ItemAt(q, f)
    PROVE  e = f
<1>1. Script(q)[e] \in Subs \cup {Data} /\ Script(q)[f] \in Subs \cup {Data}
  BY ScriptItem
<1>2. <<q, e>> \in AnyPart /\ <<q, f>> \in AnyPart
  BY ScriptItem DEF AnyPart
<1>3. CASE Script(q)[e] \in Subs /\ Script(q)[f] \in Subs
  BY <1>3, PartsAreNoSubs, SiteType DEF ItemAt
<1>4. CASE Script(q)[e] = Data /\ Script(q)[f] = Data
  BY <1>4 DEF ItemAt
<1>5. CASE Script(q)[e] \in Subs /\ Script(q)[f] = Data
  BY <1>5, <1>2, PartsAreNoSubs DEF ItemAt
<1>6. CASE Script(q)[e] = Data /\ Script(q)[f] \in Subs
  BY <1>6, <1>2, PartsAreNoSubs DEF ItemAt
<1> QED BY <1>1, <1>3, <1>4, <1>5, <1>6

(* A request that exists was made by the item in which it stands. *)
LEMMA WasMade ==
    ASSUME Base, NEW p \in Requests, NEW k \in DOMAIN Script(p), Script(p)[k] \in Live
    PROVE  k <= pos[p]
<1>s. site \in Sites
  BY DEF Base, TypeOK
<1>1. Script(p)[k] \in Subs
  BY <1>s, ScriptItem, LiveIs
<1>2. PICK q \in Requests : \E i \in 1..pos[q] : Script(q)[i] = Script(p)[k]
  BY <1>1, LiveIs DEF Base, Placed
<1>3. PICK i \in 1..pos[q] : Script(q)[i] = Script(p)[k]
  BY <1>2
<1>4. pos[q] \in Int /\ pos[q] <= Len(Script(q)) /\ Script(q) \in Seq(Subs \cup {Data})
  BY <1>s, Typed, SiteType
<1>5. i \in DOMAIN Script(q)
  BY <1>3, <1>4
<1>6. q = p /\ i = k
  BY <1>s, <1>1, <1>3, <1>5, SiteType
<1> QED BY <1>3, <1>4, <1>6

(* A request that has made something exists. *)
LEMMA HasMade ==
    ASSUME Base, InTurn, NEW q \in Requests, postponed[q] # <<>> \/ pos[q] >= 0
    PROVE  q \in Live
<1>1. pos[q] \in Int /\ postponed[q] \in Seq(Items)
  BY Typed
<1>2. pos[q] >= 0
  <2>1. CASE postponed[q] # <<>>
    <3>1. 1 \in DOMAIN postponed[q]
      BY <1>1, <2>1
    <3>2. PICK e \in 1..pos[q] : postponed[q][1] = ItemAt(q, e)
      BY <3>1 DEF InTurn
    <3> QED BY <1>1, <3>2
  <2> QED BY <2>1
<1> QED BY <1>1, <1>2 DEF Base, Started, NotStarted

(* The items that the list of a request holds were made. *)
LEMMA InListIs ==
    ASSUME Base, InTurn, NEW q \in Requests, NEW e \in InList(q)
    PROVE  e \in DOMAIN Script(q) /\ e \in Nat /\ e <= pos[q] /\ q \in Live
<1>s. site \in Sites /\ pos[q] \in Int /\ postponed[q] \in Seq(Items) /\ pos[q] <= Len(Script(q))
  BY Typed DEF Base, TypeOK
<1>1. e \in DOMAIN Script(q) /\ e \in Nat
  BY <1>s, ScriptItem DEF InList
<1>2. PICK k \in DOMAIN postponed[q] : ItemAt(q, e) = postponed[q][k]
  BY DEF InList, Range
<1>3. PICK f \in 1..pos[q] : postponed[q][k] = ItemAt(q, f)
  BY <1>2 DEF InTurn
<1>4. f \in DOMAIN Script(q)
  BY <1>s, SiteType
<1>5. e = f
  BY <1>s, <1>1, <1>2, <1>3, <1>4, ItemsDiffer
<1>6. postponed[q] # <<>>
  BY <1>s, <1>2
<1> QED BY <1>s, <1>1, <1>3, <1>5, <1>6, HasMade

(* When less is ahead, what was sent stays before it. *)
LEMMA BehindStays ==
    ASSUME Behind, Sorted, site' = site, out' = out, Live' = Live,
           \A q \in Live : \A e \in Ahead(q)' : e \in Ahead(q)
    PROVE  Behind' /\ Sorted'
<1>1. \A y, z : Before(y, z)' <=> Before(y, z)
  BY PageStays
<1>2. Whole' = Whole
  BY PageStays
<1>3. Behind'
  BY <1>1 DEF Behind
<1>4. Sorted'
  BY <1>1, <1>2 DEF Sorted
<1> QED BY <1>3, <1>4

(* A step that sends nothing, and leaves the lists and the responses as they are. *)
Quiet == /\ UNCHANGED <<site, postponed, active, out>> /\ Live' = Live
         /\ \A q \in Requests : pos'[q] = pos[q] \/ (pos[q] = NotStarted /\ pos'[q] = 0)
         /\ \A q \in Requests : Makes(q)' => Makes(q)

(* A step that adds no item and sends nothing keeps the order. *)
LEMMA OrderQuiet ==
    ASSUME Base, Ordering, Quiet
    PROVE  Ordering'
<1>p. /\ \A r : Above(r)' = Above(r) /\ Script(r)' = Script(r) /\ Parent(r)' = Parent(r)
      /\ \A q, e : ItemAt(q, e)' = ItemAt(q, e)
  BY PageStays DEF Quiet
<1>q. /\ UNCHANGED <<site, postponed, active, out>> /\ Live' = Live
      /\ \A q \in Requests : pos'[q] = pos[q] \/ (pos[q] = NotStarted /\ pos'[q] = 0)
      /\ \A q \in Requests : Makes(q)' => Makes(q)
  BY DEF Quiet
<1>l. Live \subseteq Requests /\ \A q \in Requests : pos[q] \in Int
  BY LiveIs, Typed
<1>1. \A q : InList(q)' = InList(q)
  BY <1>p, <1>q DEF InList
<1>2. ASSUME NEW q \in Live, NEW e \in Ahead(q)'
      PROVE  e \in Ahead(q)
  <2>1. /\ e \in DOMAIN Script(q)
        /\ \/ e \in InList(q) /\ Script(q)[e] \notin Above(active)
           \/ e > pos'[q] /\ Makes(q)'
    BY <1>p, <1>q, <1>1, <1>2 DEF Ahead
  <2>2. e \in Nat
    BY <2>1, <1>l, ScriptItem DEF Base, TypeOK
  <2>3. (e > pos'[q] /\ Makes(q)') => (e > pos[q] /\ Makes(q))
    BY <2>2, <1>l, <1>q DEF NotStarted
  <2> QED BY <2>1, <2>3 DEF Ahead
<1>3. Rooted'
  BY <1>p, <1>q DEF Rooted, Ordering
<1>4. InTurn'
  <2>1. \A q \in Requests : \A e \in 1..pos[q] : e \in 1..pos'[q]
    BY <1>q, <1>l DEF NotStarted
  <2> QED BY <1>p, <1>q, <2>1 DEF InTurn, Ordering
<1>5. Leading'
  BY <1>p, <1>q, <1>1 DEF Leading, Ordering
<1>6. Attached'
  BY <1>p, <1>q, <1>2 DEF Attached, Ordering
<1>7. Behind' /\ Sorted'
  BY <1>q, <1>2, BehindStays DEF Ordering
<1> QED BY <1>3, <1>4, <1>5, <1>6, <1>7 DEF Ordering

(* Unless a handler is set again, no request gets more to make. *)
LEMMA MakesLess ==
    ASSUME Base, site' = site, pos' = pos, upstream' \subseteq upstream,
           \A q \in Requests : handler'[q] = "handler" => handler[q] = "handler",
           call'.fn = "content" => Makes(call'.r)
    PROVE  \A q \in Requests : Makes(q)' => Makes(q)
<1>1. \A q \in Requests : Buffered(q)' => Buffered(q)
  BY DEF Buffered, Made, Script
<1> QED BY <1>1 DEF Makes, Running

(* To run a handler adds no item and sends nothing. *)
LEMMA QuietHandle ==
    ASSUME Base, NEW r \in Requests, Handle(r), site' = site, Live' = Live
    PROVE  Quiet
<1>t. /\ handler \in [Requests -> HandlerTypes] /\ pos \in [Requests -> Int]
  BY Typed
<1>1. CASE Starts(r)
  <2>1. /\ UNCHANGED <<postponed, active, out>> /\ pos' = [pos EXCEPT ![r] = 0]
        /\ \A q \in Requests : q # r => handler'[q] = handler[q]
        /\ handler[r] = "handler" /\ upstream' \subseteq upstream \cup {r}
        /\ call'.fn = "content" => call'.r = r
    BY <1>1, <1>t DEF Starts, Call, Return
  <2>2. pos[r] = NotStarted
    BY <2>1 DEF Base, Started
  <2>3. \A q \in Requests : q # r => (Buffered(q)' => Buffered(q))
    BY <2>1, <1>t DEF Buffered, Made, Script
  <2>4. \A q \in Requests : Makes(q)' => Makes(q)
    BY <2>1, <2>3 DEF Makes, Running
  <2> QED BY <1>t, <2>1, <2>2, <2>4 DEF Quiet
<1>2. CASE ~Starts(r)
  <2>1. /\ UNCHANGED <<postponed, pos, active, out, handler>> /\ upstream' \subseteq upstream
        /\ call'.fn = "content" => call'.r \in upstream
    <3>1. CASE Downstream(r)
      BY <3>1 DEF Downstream, body, Call, Return
    <3>2. CASE Flushes(r)
      BY <3>2 DEF Flushes, body, Call, Return
    <3>3. CASE Finalizer(r) \/ Ignores(r) \/ PhasesAgain(r)
      BY <3>3 DEF Finalizer, Ignores, PhasesAgain, body, Call, Return
    <3>4. CASE TerminateHandler(r)
      BY <3>4 DEF TerminateHandler, Call
    <3> QED BY <1>2, <3>1, <3>2, <3>3, <3>4 DEF Handle
  <2>2. call'.fn = "content" => Makes(call'.r)
    BY <2>1 DEF Makes
  <2>3. \A q \in Requests : Makes(q)' => Makes(q)
    BY <2>1, <2>2, MakesLess
  <2> QED BY <2>1, <2>3 DEF Quiet
<1> QED BY <1>1, <1>2

(* All steps but those that make or send something, or move the right to send. *)
LEMMA QuietSteps ==
    ASSUME Base, Live' = Live, NEW r \in Requests,
           \/ RunPosted \/ WriteEvent \/ Idle \/ EndContent(r) \/ Written(r)
           \/ FinalizeDone(r) \/ FinalizeError(r) \/ FinalizeLater(r) \/ FinalizeEarly(r)
           \/ FinalizeMain \/ Terminate \/ FinalizeConnection \/ Close
           \/ Events \/ ClientLeaves
    PROVE  Quiet
<1>t. /\ handler \in [Requests -> HandlerTypes] /\ active \in Requests
      /\ posted \in Seq(Requests)
  BY Typed, BaseTyped, LiveIs
<1>r. Return.fn # "content" /\ Loop.fn # "content"
  BY ReturnIs
<1>s. ASSUME UNCHANGED <<site, postponed, active, out, pos>>, upstream' \subseteq upstream,
             \A q \in Requests : handler'[q] = "handler" => handler[q] = "handler",
             call'.fn = "content" => Makes(call'.r)
      PROVE  Quiet
  <2>1. \A q \in Requests : Makes(q)' => Makes(q)
    BY <1>s, MakesLess
  <2> QED BY <1>s, <2>1 DEF Quiet
<1>1. CASE RunPosted
  <2>1. Head(posted) \in Requests
    BY <1>1, <1>t DEF RunPosted
  <2> QED BY <1>1, <2>1, QuietHandle DEF RunPosted
<1>2. CASE WriteEvent
  BY <1>2, <1>t, QuietHandle DEF WriteEvent
<1>3. CASE Idle \/ EndContent(r) \/ FinalizeDone(r)
  <2>1. /\ UNCHANGED <<site, postponed, active, out, pos, handler>> /\ upstream' \subseteq upstream
        /\ call'.fn # "content"
    BY <1>3, <1>r DEF Idle, EndContent, FinalizeDone, body, Call
  <2> QED BY <1>s, <2>1
<1>4. CASE Written(r) \/ FinalizeError(r) \/ FinalizeLater(r) \/ FinalizeEarly(r)
  <2>1. /\ UNCHANGED <<site, postponed, active, out, pos, upstream>>
        /\ call'.fn # "content"
        /\ \/ handler' = handler
           \/ \E h \in {"empty", "writer", "finalizer"} : handler' = [handler EXCEPT ![r] = h]
    BY <1>4, <1>r DEF Written, FinalizeError, FinalizeLater, FinalizeEarly, body, Call
  <2>2. \A q \in Requests : handler'[q] = "handler" => handler[q] = "handler"
    BY <1>t, <2>1
  <2> QED BY <1>s, <2>1, <2>2
<1>5. CASE FinalizeMain \/ Terminate
  <2>1. /\ UNCHANGED <<site, postponed, active, out, pos>> /\ upstream' \subseteq upstream
        /\ call'.fn # "content"
        /\ \/ handler' = handler
           \/ \E h \in {"empty", "terminate"} : handler' = [handler EXCEPT ![Main] = h]
    BY <1>5, <1>r DEF FinalizeMain, Terminate, Call
  <2>2. \A q \in Requests : handler'[q] = "handler" => handler[q] = "handler"
    BY <1>t, <2>1
  <2> QED BY <1>s, <2>1, <2>2
<1>6. CASE FinalizeConnection \/ Close
  <2>1. /\ UNCHANGED <<site, postponed, active, out, pos, handler, upstream>>
        /\ call'.fn # "content"
    BY <1>6, <1>r DEF FinalizeConnection, Close, Call
  <2> QED BY <1>s, <2>1
<1>7. CASE Events
  <2>1. /\ UNCHANGED <<site, postponed, active, out, pos, handler>> /\ upstream' \subseteq upstream
        /\ call'.fn = "content" => call'.r \in upstream
    BY <1>7 DEF Events, UpstreamEvent, PipeAborts, AioDone, Writable, SendTimeout, Lingered,
       body, Call
  <2>2. call'.fn = "content" => Makes(call'.r)
    BY <2>1 DEF Makes
  <2> QED BY <1>s, <2>1, <2>2
<1>8. CASE ClientLeaves
  <2>1. /\ UNCHANGED <<site, postponed, active, out, pos, handler>> /\ upstream' \subseteq upstream
        /\ call' = Noticed(active)
    BY <1>8 DEF ClientLeaves
  <2>2. call'.fn # "content"
    BY <2>1, <1>r DEF Noticed, Call
  <2> QED BY <1>s, <2>1, <2>2
<1> QED BY <1>1, <1>2, <1>3, <1>4, <1>5, <1>6, <1>7, <1>8

-----------------------------------------------------------------------------
(* Lists, and what goes out of them *)

(* A sequence of items of a response, among its first n, in their order. *)
Row(q, L, n) ==
    /\ \A k \in DOMAIN L : \E e \in 1..n : L[k] = ItemAt(q, e)
    /\ \A k, l \in DOMAIN L : \A e, f \in DOMAIN Script(q) :
          (k < l /\ L[k] = ItemAt(q, e) /\ L[l] = ItemAt(q, f)) => e < f

(* A list holds the items of a response in their order, *)
LEMMA TurnIsRow ==
    ASSUME InTurn, NEW q \in Requests
    PROVE  Row(q, postponed[q], pos[q])
  BY DEF InTurn, Row

(* A list with the next item, if there is one. *)
Grown(r, in, n, L) ==
    /\ L \in Seq(Items) /\ Row(r, L, n)
    /\ \A k \in DOMAIN L : \A e \in DOMAIN Script(r) :
          L[k] = ItemAt(r, e) => e \in InList(r) \/ (in # <<>> /\ e = n)
    /\ \A e \in InList(r) : \E k \in DOMAIN L : L[k] = ItemAt(r, e)
    /\ in # <<>> => \E k \in DOMAIN L : L[k] = ItemAt(r, n)

(* and so it does with those that were just made. *)
LEMMA RowGrows ==
    ASSUME Base, InTurn, NEW r \in Requests, NEW n \in pos[r]..Len(Script(r)), NEW in \in Seq(Items),
           in = <<>> \/ (n = pos[r] + 1 /\ n >= 1 /\ in = <<ItemAt(r, n)>>),
           NEW L, L = postponed[r] \o in
    PROVE  Grown(r, in, n, L)
<1> DEFINE list == postponed[r]
<1>t. /\ list \in Seq(Items) /\ site \in Sites /\ pos[r] \in Int
      /\ Len(Script(r)) \in Nat /\ DOMAIN Script(r) = 1..Len(Script(r)) /\ n \in Int
  BY Typed, SiteType DEF Base, TypeOK
<1>r. Row(r, list, pos[r])
  BY TurnIsRow
<1> HIDE DEF list
<1>c. L = list \o in
  BY DEF list
<1>1. /\ L \in Seq(Items) /\ Len(list) \in Nat /\ Len(in) \in Nat
      /\ DOMAIN L = 1..Len(list) + Len(in)
      /\ DOMAIN list = 1..Len(list) /\ DOMAIN in = 1..Len(in)
      /\ \A i \in 1..Len(list) : L[i] = list[i]
      /\ \A i \in 1..Len(list) + Len(in) :
            i > Len(list) => L[i] = in[i - Len(list)] /\ i - Len(list) \in 1..Len(in)
  BY <1>t, <1>c, ConcatIs
<1>2. in # <<>> => /\ Len(in) = 1 /\ in[1] = ItemAt(r, n) /\ n = pos[r] + 1 /\ n \in DOMAIN Script(r)
                   /\ Len(list) + 1 \in DOMAIN L /\ L[Len(list) + 1] = ItemAt(r, n)
  <2> SUFFICES ASSUME in # <<>>
               PROVE  /\ Len(in) = 1 /\ in[1] = ItemAt(r, n) /\ n = pos[r] + 1 /\ n \in DOMAIN Script(r)
                      /\ Len(list) + 1 \in DOMAIN L /\ L[Len(list) + 1] = ItemAt(r, n)
    OBVIOUS
  <2>1. n = pos[r] + 1 /\ n >= 1 /\ in = <<ItemAt(r, n)>>
    OBVIOUS
  <2>2. Len(in) = 1 /\ in[1] = ItemAt(r, n)
    BY <2>1
  <2>3. n \in DOMAIN Script(r)
    BY <1>t, <2>1
  <2>4. /\ Len(list) + 1 \in 1..Len(list) + Len(in) /\ Len(list) + 1 > Len(list)
        /\ Len(list) + 1 - Len(list) = 1
    BY <1>1, <2>2
  <2>5. L[Len(list) + 1] = in[1]
    <3> DEFINE i == Len(list) + 1
    <3>1. i > Len(list) => L[i] = in[i - Len(list)]
      BY <1>1, <2>4
    <3>2. i > Len(list) /\ i - Len(list) = 1
      BY <2>4
    <3>3. L[i] = in[1]
      <4> HIDE DEF i
      <4> QED BY <3>1, <3>2
    <3> QED BY <3>3
  <2> QED BY <1>1, <2>1, <2>2, <2>3, <2>4, <2>5
<1>3. \A k \in DOMAIN L : \/ k \in DOMAIN list /\ L[k] = list[k]
                          \/ in # <<>> /\ k = Len(list) + 1 /\ L[k] = ItemAt(r, n)
  <2>1. in = <<>> => Len(in) = 0
    OBVIOUS
  <2> QED BY <1>1, <1>2, <2>1, SMTT(60)
<1>4. \A k \in DOMAIN list : k \in DOMAIN L /\ L[k] = list[k] /\ k < Len(list) + 1
  BY <1>1
<1>5. \A k \in DOMAIN L : \E e \in 1..n : L[k] = ItemAt(r, e)
  <2> SUFFICES ASSUME NEW k \in DOMAIN L PROVE \E e \in 1..n : L[k] = ItemAt(r, e)
    OBVIOUS
  <2>1. CASE k \in DOMAIN list /\ L[k] = list[k]
    <3>1. PICK e \in 1..pos[r] : list[k] = ItemAt(r, e)
      BY <2>1, <1>r DEF Row
    <3>2. e \in 1..n
      BY <1>t
    <3> QED BY <2>1, <3>1, <3>2
  <2>2. CASE in # <<>> /\ L[k] = ItemAt(r, n)
    BY <2>2, <1>2, <1>t
  <2> QED BY <1>3, <2>1, <2>2
<1>6. ASSUME NEW k \in DOMAIN L, NEW e \in DOMAIN Script(r), L[k] = ItemAt(r, e)
      PROVE  /\ k \in DOMAIN list => e <= pos[r] /\ e \in InList(r)
             /\ k \notin DOMAIN list => in # <<>> /\ e = n
  <2>1. CASE k \in DOMAIN list
    <3>1. PICK f \in 1..pos[r] : list[k] = ItemAt(r, f)
      BY <2>1, <1>r DEF Row
    <3>2. f \in DOMAIN Script(r)
      BY <1>t
    <3>3. e = f
      BY <1>t, <1>4, <1>6, <2>1, <3>1, <3>2, ItemsDiffer
    <3>4. ItemAt(r, e) \in Range(postponed[r])
      BY <1>4, <1>6, <2>1 DEF Range, list
    <3> QED BY <2>1, <1>t, <3>3, <3>4 DEF InList
  <2>2. CASE k \notin DOMAIN list
    <3>1. in # <<>> /\ L[k] = ItemAt(r, n)
      BY <1>3, <2>2
    <3>2. n \in DOMAIN Script(r)
      BY <1>2, <3>1
    <3>3. e = n
      BY <1>t, <1>6, <3>1, <3>2, ItemsDiffer
    <3> QED BY <2>2, <3>1, <3>3
  <2> QED BY <2>1, <2>2
<1>7. ASSUME NEW k \in DOMAIN L, NEW l \in DOMAIN L, NEW e \in DOMAIN Script(r),
             NEW f \in DOMAIN Script(r), k < l, L[k] = ItemAt(r, e), L[l] = ItemAt(r, f)
      PROVE  e < f
  <2>1. CASE l \in DOMAIN list
    <3>1. k \in DOMAIN list
      BY <1>1, <1>7, <2>1
    <3> QED BY <1>r, <1>4, <1>7, <2>1, <3>1 DEF Row
  <2>2. CASE l \notin DOMAIN list
    <3>1. in # <<>> /\ f = n /\ l = Len(list) + 1
      BY <1>3, <1>6, <1>7, <2>2
    <3>2. k \in DOMAIN list
      BY <1>1, <1>3, <1>7, <3>1
    <3>3. e <= pos[r]
      BY <1>6, <1>7, <3>2
    <3> QED BY <1>t, <1>2, <3>1, <3>3
  <2> QED BY <2>1, <2>2
<1>8. ASSUME NEW e \in InList(r) PROVE \E k \in DOMAIN L : L[k] = ItemAt(r, e)
  <2>1. PICK k \in DOMAIN list : list[k] = ItemAt(r, e)
    BY DEF InList, Range, list
  <2> QED BY <1>4, <2>1
<1>9. \A k \in DOMAIN L : \A e \in DOMAIN Script(r) :
         L[k] = ItemAt(r, e) => e \in InList(r) \/ (in # <<>> /\ e = n)
  BY <1>6
<1>10. Row(r, L, n)
  BY <1>5, <1>7 DEF Row
<1> QED BY <1>1, <1>2, <1>8, <1>9, <1>10 DEF Grown

(* What is left of a row when its first items are gone. *)
Rest(r, L, d) ==
    /\ \A k \in DOMAIN postponed'[r] : k + d \in DOMAIN L /\ postponed'[r][k] = L[k + d]
    /\ \A q \in Requests : q # r => postponed'[q] = postponed[q]

(* What is left of it when its first items are taken is in order too. *)
LEMMA RestInTurn ==
    ASSUME Base, Base', InTurn, site' = site, NEW r \in Requests, NEW n \in Int, NEW L,
           Row(r, L, n), NEW d \in Nat, Rest(r, L, d), pos' = [pos EXCEPT ![r] = n]
    PROVE  /\ InTurn'
           /\ \A q \in Requests : q # r => InList(q)' = InList(q)
           /\ \A e \in InList(r)' : \E k \in DOMAIN L : L[k] = ItemAt(r, e) /\ k > d
<1>t. /\ postponed'[r] \in Seq(Items) /\ \A k \in DOMAIN postponed'[r] : k \in Nat /\ k > 0
      /\ pos'[r] = n /\ \A q \in Requests : q # r => pos'[q] = pos[q]
  <2>1. postponed'[r] \in Seq(Items)
    BY DEF Base, TypeOK
  <2>2. \A k \in DOMAIN postponed'[r] : k \in Nat /\ k > 0
    BY <2>1
  <2> QED BY <2>1, <2>2, Typed
<1>p. /\ \A q : Script(q)' = Script(q)
      /\ \A q, e : ItemAt(q, e)' = ItemAt(q, e)
  BY PageStays
<1>1. \A q \in Requests : q # r => InList(q)' = InList(q)
  BY <1>p DEF InList, Rest
<1>2. ASSUME NEW e \in InList(r)' PROVE \E k \in DOMAIN L : L[k] = ItemAt(r, e) /\ k > d
  <2>1. PICK k \in DOMAIN postponed'[r] : postponed'[r][k] = ItemAt(r, e)
    BY <1>p, <1>2 DEF InList, Range
  <2>2. k + d > d
    BY <1>t
  <2> QED BY <2>1, <2>2 DEF Rest
<1>3. InTurn'
  <2>1. ASSUME NEW q \in Requests, NEW k \in DOMAIN postponed'[q]
        PROVE  \E e \in 1..pos'[q] : postponed'[q][k] = ItemAt(q, e)
    BY <1>t, <2>1 DEF Rest, Row, InTurn
  <2>2. ASSUME NEW q \in Requests, NEW k \in DOMAIN postponed'[q], NEW l \in DOMAIN postponed'[q],
               NEW e \in DOMAIN Script(q), NEW f \in DOMAIN Script(q),
               k < l, postponed'[q][k] = ItemAt(q, e), postponed'[q][l] = ItemAt(q, f)
        PROVE  e < f
    <3>1. CASE q # r
      BY <2>2, <3>1 DEF Rest, InTurn
    <3>2. CASE q = r
      <4>1. /\ k + d \in DOMAIN L /\ l + d \in DOMAIN L
            /\ L[k + d] = ItemAt(r, e) /\ L[l + d] = ItemAt(r, f)
        BY <2>2, <3>2 DEF Rest
      <4>2. k + d < l + d
        BY <1>t, <2>2, <3>2
      <4> QED BY <3>2, <4>1, <4>2 DEF Row
    <3> QED BY <3>1, <3>2
  <2> QED BY <1>p, <2>1, <2>2 DEF InTurn
<1> QED BY <1>1, <1>2, <1>3

(* A subrequest that a list holds is an item of it. *)
LEMMA Hangs ==
    ASSUME NEW p \in Requests, NEW m \in DOMAIN Script(p), Script(p)[m] \in Subs
    PROVE  /\ Script(p)[m] \in Range(postponed[p]) <=> m \in InList(p)
           /\ ItemAt(p, m) = Script(p)[m]
<1>1. ItemAt(p, m) = Script(p)[m]
  BY PartsAreNoSubs DEF ItemAt
<1> QED BY <1>1 DEF InList

(* What the request that may send sends, before the subrequests in its list, *)
(* comes before all that is still to be sent.                                *)
LEMMA SentBefore ==
    ASSUME Base, Ordering, NEW r, r = active, NEW d \in DOMAIN Script(r),
           NEW q \in Live, NEW e \in Ahead(q), q = r => d < e,
           \A m \in InList(r) : Script(r)[m] \in Subs => d < m
    PROVE  Before(<<r, d>>, <<q, e>>)
<1>t. /\ site \in Sites /\ r \in Live /\ r \in Requests /\ q \in Requests
      /\ Main \in Above(r) /\ Main \in Above(q) /\ Above(r) \subseteq Live
      /\ Above(q) \subseteq Requests /\ Above(r) \subseteq Requests
  BY BaseTyped, LiveIs, AboveIs DEF Base, TypeOK, Ordering, Rooted
<1>e. e \in DOMAIN Script(q) /\ e \in Nat /\ d \in Nat /\ pos[q] \in Int
  BY <1>t, ScriptItem, Typed DEF Ahead
<1>a. \A p \in Requests : \A k \in DOMAIN Script(p) :
         /\ Script(p)[k] \in Above(r) => k \in Toward(p, <<r, d>>)
         /\ Script(p)[k] \in Above(q) => k \in Toward(p, <<q, e>>)
  BY DEF Toward
<1>b. d \in Toward(r, <<r, d>>) /\ e \in Toward(q, <<q, e>>)
  BY <1>e DEF Toward
<1>c. \A c \in Above(q) \cap Subs : c \in Above(r) \/ c \in Range(postponed[Parent(c)])
  BY DEF Ordering, Attached
<1>1. CASE q = r
  BY <1>1, <1>b, <1>t DEF Before
<1>2. CASE q # r /\ r \in Above(q)
  <2>1. PICK m \in DOMAIN Script(r) : /\ Script(r)[m] \in Above(q)
                                      /\ Script(r)[m] \in Subs /\ Parent(Script(r)[m]) = r
    BY <1>2, <1>t, Leads
  <2>2. Script(r)[m] \notin Above(r)
    BY <2>1, <1>t, NoLoop
  <2>3. m \in InList(r)
    BY <2>1, <2>2, <1>c, <1>t, Hangs
  <2>4. d < m
    BY <2>1, <2>3
  <2>5. m \in Toward(r, <<q, e>>)
    BY <2>1, <1>t, <1>a
  <2> QED BY <1>b, <1>t, <2>4, <2>5 DEF Before
<1>3. CASE r \notin Above(q) /\ q \in Above(r)
  <2>0. q # r
    BY <1>3, <1>t, AboveIs
  <2>1. PICK k \in DOMAIN Script(q) : /\ Script(q)[k] \in Above(r)
                                      /\ Script(q)[k] \in Subs /\ Parent(Script(q)[k]) = q
    BY <1>3, <2>0, <1>t, Leads
  <2>2. k \in Toward(q, <<r, d>>) /\ k \in Nat
    BY <2>1, <1>t, <1>a, ScriptItem
  <2>3. k < e
    <3>1. CASE e \in InList(q) /\ Script(q)[e] \notin Above(r)
      <4>1. k <= e
        BY <3>1, <2>1, <1>t DEF Ordering, Leading
      <4>2. k # e
        BY <3>1, <2>1
      <4> QED BY <4>1, <4>2, <2>2, <1>e
    <3>2. CASE e > pos[q]
      <4>1. k <= pos[q]
        BY <2>1, <1>t, WasMade
      <4> QED BY <3>2, <4>1, <2>2, <1>e
    <3> QED BY <3>1, <3>2 DEF Ahead
  <2> QED BY <1>b, <1>t, <2>2, <2>3 DEF Before
<1>4. CASE r \notin Above(q) /\ q \notin Above(r)
  <2>1. PICK p \in Above(r) \cap Requests : \E m \in DOMAIN Script(p) :
              /\ Script(p)[m] \in Above(q) \ Above(r)
              /\ Script(p)[m] \in Subs /\ Parent(Script(p)[m]) = p
    <3>1. Main \in Above(r) /\ Main \in Above(q) /\ q \notin Above(r)
      BY <1>4, <1>t
    <3> QED BY <3>1, <1>t, Leaves
  <2>2. PICK m \in DOMAIN Script(p) : /\ Script(p)[m] \in Above(q) \ Above(r)
                                      /\ Script(p)[m] \in Subs /\ Parent(Script(p)[m]) = p
    BY <2>1
  <2>3. m \in InList(p)
    BY <2>2, <1>c, Hangs
  <2>4. p # r
    <3>1. p \in Above(q)
      BY <2>2, <1>t, AboveIs
    <3> QED BY <3>1, <1>4
  <2>5. PICK k \in DOMAIN Script(p) : Script(p)[k] \in Above(r)
    BY <2>4, <1>t, Leads
  <2>6. k \in Nat /\ m \in Nat
    BY <1>t, ScriptItem
  <2>7. k <= m
    BY <2>3, <2>5, <1>t DEF Ordering, Leading
  <2>8. k # m
    BY <2>2, <2>5
  <2>9. k < m
    BY <2>6, <2>7, <2>8
  <2>10. k \in Toward(p, <<r, d>>) /\ m \in Toward(p, <<q, e>>)
    BY <2>2, <2>5, <1>a
  <2> QED BY <2>9, <2>10 DEF Before
<1> QED BY <1>1, <1>2, <1>3, <1>4

(* A step of r makes at most one item, and what it leaves to be made is what *)
(* was left before.                                                          *)
Fills(r, in, n) ==
    /\ r \in Live /\ r \in Requests /\ n \in pos[r]..Len(Script(r))
    /\ pos' = [pos EXCEPT ![r] = n] /\ site' = site
    /\ \/ in = <<>>
       \/ n = pos[r] + 1 /\ n >= 1 /\ in = <<ItemAt(r, n)>> /\ Makes(r)
    /\ \A q \in Requests : Makes(q)' => Makes(q)

(* What a write adds, as the facts that the order needs. *)
LEMMA WriteIs ==
    ASSUME Base, NEW r \in Requests, EmitData(r) \/ Flush(r)
    PROVE  \E in \in Seq(Items), n \in Int,
              next \in {Call("content", r, "ok"), Call("written", r, "ok"), Return} :
              /\ Fills(r, in, n) /\ (in # <<>> => Script(r)[n] = Data)
              /\ GoesOn(r, postponed[r] \o in, next) \/ Breaks(r, postponed[r] \o in)
<1>1. PICK in \in Seq(AnyPart), n \in Int,
           next \in {Call("content", r, "ok"), Call("written", r, "ok"), Return} :
              /\ Writes(r, in, next, n)
              /\ Emits(r, in, next, n) \/ Drains(r, in, next, n)
  BY WriteSteps
<1>t. /\ pos[r] \in Int /\ Len(Script(r)) \in Nat /\ pos[r] <= Len(Script(r))
      /\ pos \in [Requests -> Int] /\ site \in Sites
  BY Typed DEF Base, TypeOK
<1>w. /\ n \in pos[r]..Len(Script(r)) /\ pos' = [pos EXCEPT ![r] = n]
      /\ site' = site /\ handler' = handler
      /\ GoesOn(r, postponed[r] \o in, next) \/ Breaks(r, postponed[r] \o in)
  BY <1>1 DEF Writes
<1>l. r \in Live /\ (Running("content") => pos[r] >= 0)
  BY <1>1, BaseTyped DEF Emits, Drains, Running, Fn, Base, Started
<1>2. \/ in = <<>>
      \/ n = pos[r] + 1 /\ n >= 1 /\ in = <<ItemAt(r, n)>> /\ Script(r)[n] = Data /\ Makes(r)
  <2>1. CASE Emits(r, in, next, n)
    <3>1. /\ n = pos[r] + 1 /\ pos[r] >= 0 /\ in = <<<<r, n>>>> /\ Script(r)[n] = Data
          /\ Running("content") /\ call.r = r
      BY <2>1 DEF Emits
    <3> QED BY <3>1, <1>t DEF ItemAt, Makes
  <2>2. CASE Drains(r, in, next, n) /\ Buffered(r)
    <3>1. n = pos[r] + 1 /\ in = <<<<r, n>>>> /\ pos[r] >= 0 /\ site.kind[r] = "file"
      BY <2>2 DEF Drains, Buffered
    <3>2. n \in DOMAIN Script(r) /\ Script(r) \in Seq({Data})
      BY <3>1, <1>t, <1>w, SiteType
    <3>3. Script(r)[n] = Data
      BY <3>2
    <3> QED BY <2>2, <3>1, <3>3, <1>t DEF ItemAt, Makes
  <2>3. CASE Drains(r, in, next, n) /\ ~Buffered(r)
    BY <2>3 DEF Drains
  <2> QED BY <1>1, <2>1, <2>2, <2>3
<1>3. ASSUME NEW q \in Requests, Makes(q)' PROVE Makes(q)
  <2>1. upstream' \subseteq upstream /\ call' \in {next, Call("finalize", r, "error")}
    BY <1>w DEF GoesOn, Breaks
  <2>2. CASE Running("content")' /\ call'.r = q
    <3>1. Emits(r, in, next, n) /\ call'.r = r
      BY <1>1, <2>1, <2>2, ReturnIs DEF Running, Call, Drains
    <3> QED BY <2>2, <3>1 DEF Emits, Makes
  <2>3. CASE Buffered(q)'
    <3>1. CASE q # r
      <4>1. pos'[q] = pos[q]
        BY <1>t, <1>w, <3>1
      <4> QED BY <2>3, <4>1, <1>w DEF Buffered, Made, Script, Makes
    <3>2. CASE q = r
      <4>1. pos'[r] = n /\ site.kind[r] = "file" /\ n >= 0 /\ n # Len(Script(r))
        BY <1>t, <1>w, <2>3, <3>2 DEF Buffered, Made, Script
      <4>2. pos[r] >= 0
        BY <1>1, <1>t, <4>1 DEF Emits, Drains, Buffered
      <4>3. pos[r] # Len(Script(r))
        BY <1>t, <1>w, <4>1
      <4> QED BY <3>2, <4>1, <4>2, <4>3 DEF Buffered, Made, Makes
    <3> QED BY <3>1, <3>2
  <2> QED BY <1>3, <1>w, <2>1, <2>2, <2>3 DEF Makes
<1>4. Fills(r, in, n)
  BY <1>w, <1>l, <1>2, <1>3 DEF Fills
<1>5. in \in Seq(Items)
  BY <1>1, PartsAreNoSubs
<1> QED BY <1>1, <1>2, <1>w, <1>4, <1>5

(* The row that a write makes of a list. *)
Filled(r, n, L) ==
    /\ L \in Seq(Items) /\ Row(r, L, n)
    /\ \A k \in DOMAIN L : \A e \in DOMAIN Script(r) :
          L[k] = ItemAt(r, e) => /\ e \in InList(r) \/ (e > pos[r] /\ Makes(r))
                                 /\ Script(r)[e] \notin Above(active) => e \in Ahead(r)
    /\ \A e \in InList(r) : \E k \in DOMAIN L : L[k] = ItemAt(r, e)

(* The list of the request that writes, with what it has just made. *)
LEMMA FilledIs ==
    ASSUME Base, Ordering, NEW r, NEW in \in Seq(Items), NEW n \in Int, Fills(r, in, n),
           NEW L, L = postponed[r] \o in
    PROVE  Filled(r, n, L)
<1>f. /\ r \in Requests /\ n \in pos[r]..Len(Script(r))
      /\ in = <<>> \/ (n = pos[r] + 1 /\ n >= 1 /\ in = <<ItemAt(r, n)>> /\ Makes(r))
  BY DEF Fills
<1>i. in \in Seq(Items) /\ pos[r] \in Int
  BY <1>f, Typed
<1>1. Grown(r, in, n, L)
  <2>1. InTurn /\ (in = <<>> \/ (n = pos[r] + 1 /\ n >= 1 /\ in = <<ItemAt(r, n)>>))
    BY <1>f DEF Ordering
  <2> QED BY <1>f, <1>i, <2>1, RowGrows
<1>2. in # <<>> => n > pos[r] /\ Makes(r)
  BY <1>f, <1>i
<1> QED BY <1>1, <1>2 DEF Ahead, Grown, Filled

(* What is ahead after a write was ahead before it, if nothing leaves the    *)
(* branch of the request that may send.                                      *)
LEMMA AheadLess ==
    ASSUME Base, Base', Ordering, NEW r, NEW in \in Seq(Items), NEW n \in Int,
           Fills(r, in, n), NEW L, L = postponed[r] \o in, NEW d \in Nat, Rest(r, L, d),
           Above(active) \subseteq Above(active')
    PROVE  /\ InTurn'
           /\ \A q \in Live : \A e \in Ahead(q)' : e \in Ahead(q)
           /\ \A q \in Requests : q # r => InList(q)' = InList(q)
           /\ \A e \in InList(r)' : \E k \in DOMAIN L : L[k] = ItemAt(r, e) /\ k > d
<1>f. /\ r \in Requests /\ pos' = [pos EXCEPT ![r] = n] /\ site' = site /\ n >= pos[r]
      /\ \A q \in Requests : Makes(q)' => Makes(q)
  BY DEF Fills
<1>p. \A q : Script(q)' = Script(q) /\ Above(q)' = Above(q)
  BY <1>f, PageStays
<1>a. Above(active)' = Above(active')
  BY <1>f DEF Above
<1>1. /\ Row(r, L, n)
      /\ \A k \in DOMAIN L : \A e \in DOMAIN Script(r) :
            L[k] = ItemAt(r, e) => (Script(r)[e] \notin Above(active) => e \in Ahead(r))
  <2>1. Filled(r, n, L)
    BY FilledIs
  <2> QED BY <2>1 DEF Filled
<1>2. /\ InTurn'
      /\ \A q \in Requests : q # r => InList(q)' = InList(q)
      /\ \A e \in InList(r)' : \E k \in DOMAIN L : L[k] = ItemAt(r, e) /\ k > d
  BY <1>f, <1>1, RestInTurn DEF Ordering
<1>3. ASSUME NEW q \in Live, NEW e \in Ahead(q)' PROVE e \in Ahead(q)
  <2>1. /\ e \in DOMAIN Script(q) /\ q \in Requests
        /\ \/ e \in InList(q)' /\ Script(q)[e] \notin Above(active)
           \/ e > pos'[q] /\ Makes(q)
    BY <1>f, <1>p, <1>a, <1>3, LiveIs DEF Ahead
  <2>2. CASE e \in InList(q)' /\ Script(q)[e] \notin Above(active)
    <3>1. CASE q = r
      BY <1>1, <1>2, <2>1, <2>2, <3>1
    <3>2. CASE q # r
      BY <1>2, <2>1, <2>2, <3>2 DEF Ahead
    <3> QED BY <3>1, <3>2
  <2>3. CASE e > pos'[q] /\ Makes(q)
    <3>3. pos \in [Requests -> Int] /\ e \in Nat
      BY <2>1, Typed, ScriptItem DEF Base, TypeOK
    <3>1. e \in Nat /\ pos[q] \in Int /\ pos'[q] \in Int /\ pos'[q] >= pos[q]
      BY <1>f, <2>1, <3>3
    <3>2. e > pos[q]
      BY <2>3, <3>1
    <3> QED BY <2>1, <2>3, <3>2 DEF Ahead
  <2> QED BY <2>1, <2>2, <2>3
<1> QED BY <1>2, <1>3

(* A write that sends keeps the order: data is what goes out, it stands      *)
(* before what is left of the list and before the subrequests in it.         *)
Goes(r, L, d, data) ==
    /\ data \in Seq(Requests \X (Nat \ {0})) /\ out' = out \o data
    /\ \A i \in DOMAIN data : /\ i \in DOMAIN L /\ data[i] = L[i] /\ L[i] \notin Subs /\ i <= d
                              /\ \A k \in DOMAIN L : L[k] \in Subs => i < k

(* What is sent comes before all that is left, and after what was sent. *)
LEMMA OrderSends ==
    ASSUME Base, Base', Ordering, Live' = Live, NEW r, r = active,
           NEW in \in Seq(Items), NEW n \in Int,
           Fills(r, in, n), NEW L, L = postponed[r] \o in, NEW d \in Nat, Rest(r, L, d),
           Above(active) \subseteq Above(active'), NEW data, Goes(r, L, d, data)
    PROVE  Behind' /\ Sorted'
<1>f. /\ r \in Requests /\ r \in Live /\ pos' = [pos EXCEPT ![r] = n] /\ site' = site
      /\ n \in pos[r]..Len(Script(r)) /\ site \in Sites
      /\ pos \in [Requests -> Int] /\ Len(Script(r)) \in Nat /\ DOMAIN Script(r) = 1..Len(Script(r))
  <2>1. site \in Sites /\ r \in Requests
    BY DEF Fills, Base, TypeOK
  <2>2. Len(Script(r)) \in Nat /\ DOMAIN Script(r) = 1..Len(Script(r))
    BY <2>1, SiteType
  <2> QED BY <2>1, <2>2, Typed DEF Fills
<1>p. /\ \A q : Script(q)' = Script(q) /\ Above(q)' = Above(q)
      /\ \A y, z : Before(y, z)' <=> Before(y, z)
      /\ Whole' = Whole
  BY <1>f, PageStays
<1>a. /\ \A q \in Live : \A e \in Ahead(q)' : e \in Ahead(q)
      /\ \A e \in InList(r)' : \E k \in DOMAIN L : L[k] = ItemAt(r, e) /\ k > d
  BY AheadLess, ZenonT(60)
<1>l. /\ L \in Seq(Items) /\ Row(r, L, n)
      /\ \A k \in DOMAIN L : \A e \in DOMAIN Script(r) :
            L[k] = ItemAt(r, e) => (Script(r)[e] \notin Above(active) => e \in Ahead(r))
      /\ \A e \in InList(r) : \E k \in DOMAIN L : L[k] = ItemAt(r, e)
  <2>1. Filled(r, n, L)
    BY FilledIs
  <2> QED BY <2>1 DEF Filled
<1>n. \A k \in DOMAIN L : k \in Nat
  BY <1>l
(* What one part of data is. *)
<1>d. ASSUME NEW i \in DOMAIN data
      PROVE  \E e \in DOMAIN Script(r) :
                /\ e \in Nat /\ e <= n /\ Script(r)[e] = Data /\ data[i] = <<r, e>>
                /\ e \in Ahead(r)
                /\ i \in DOMAIN L /\ L[i] = ItemAt(r, e)
                /\ \A q \in Live : \A f \in Ahead(q)' : Before(<<r, e>>, <<q, f>>)
  <2>1. /\ i \in DOMAIN L /\ data[i] = L[i] /\ L[i] \notin Subs /\ i <= d
        /\ \A k \in DOMAIN L : L[k] \in Subs => i < k
    BY DEF Goes
  <2>2. PICK e \in 1..n : L[i] = ItemAt(r, e)
    BY <1>l, <2>1 DEF Row
  <2>3. e \in DOMAIN Script(r) /\ e \in Nat /\ e <= n
    BY <1>f
  <2>4. Script(r)[e] = Data
    BY <1>f, <2>1, <2>2, <2>3, ScriptItem DEF ItemAt
  <2>5. data[i] = <<r, e>>
    BY <2>1, <2>2, <2>4 DEF ItemAt
  <2>6. Data \notin Above(active)
    BY <1>f, AboveIs, RequestAssumption
  <2>7. e \in Ahead(r)
    BY <1>l, <2>1, <2>2, <2>3, <2>4, <2>6
  <2>8. \A m \in InList(r) : Script(r)[m] \in Subs => e < m
    <3> SUFFICES ASSUME NEW m \in InList(r), Script(r)[m] \in Subs PROVE e < m
      OBVIOUS
    <3>1. m \in DOMAIN Script(r) /\ ItemAt(r, m) = Script(r)[m]
      BY <1>f, Hangs DEF InList
    <3>2. PICK k \in DOMAIN L : L[k] = ItemAt(r, m)
      BY <1>l
    <3>3. i < k
      BY <2>1, <3>1, <3>2
    <3> QED BY <1>l, <2>1, <2>2, <2>3, <3>1, <3>2, <3>3 DEF Row
  <2>9. ASSUME NEW q \in Live, NEW f \in Ahead(q)' PROVE Before(<<r, e>>, <<q, f>>)
    <3>1. f \in Ahead(q)
      BY <1>a
    <3>2. q = r => e < f
      <4> SUFFICES ASSUME q = r PROVE e < f
        OBVIOUS
      <4>1. /\ f \in DOMAIN Script(r) /\ (f \in InList(r)' \/ f > pos'[r])
        BY <1>p, <2>9 DEF Ahead
      <4>2. CASE f \in InList(r)'
        <5>1. PICK k \in DOMAIN L : L[k] = ItemAt(r, f) /\ k > d
          BY <1>a, <4>2
        <5>2. i < k
          BY <1>n, <2>1, <5>1
        <5>3. L[k] = ItemAt(r, f) /\ f \in DOMAIN Script(r)
          BY <4>1, <5>1
        <5> QED BY <1>l, <2>1, <2>2, <2>3, <5>1, <5>2, <5>3, SMTT(60) DEF Row
      <4>3. CASE f > pos'[r]
        <5>1. pos'[r] = n /\ f \in Int
          BY <1>f, <4>1
        <5> QED BY <4>3, <5>1, <2>3
      <4> QED BY <4>1, <4>2, <4>3
    <3> QED BY <2>3, <2>8, <3>1, <3>2, SentBefore
  <2> QED BY <2>1, <2>2, <2>3, <2>4, <2>5, <2>7, <2>9
<1>o. out \in Seq(Requests \X (Nat \ {0})) /\ data \in Seq(Requests \X (Nat \ {0}))
      /\ out' = out \o data
  BY DEF Goes, Base, TypeOK
<1>c. /\ DOMAIN out' = 1..Len(out) + Len(data)
      /\ DOMAIN out = 1..Len(out) /\ DOMAIN data = 1..Len(data)
      /\ Len(out) \in Nat /\ Len(data) \in Nat
      /\ \A i \in 1..Len(out) : out'[i] = out[i]
      /\ \A i \in 1..Len(out) + Len(data) :
            i > Len(out) => out'[i] = data[i - Len(out)] /\ i - Len(out) \in 1..Len(data)
  BY <1>o, ConcatIs
<1>r. Range(out') = Range(out) \cup Range(data)
  BY <1>o, RangeConcat
<1>1. Behind'
  <2> SUFFICES ASSUME NEW x \in Range(out'), NEW q \in Live, NEW e \in Ahead(q)'
               PROVE  Before(x, <<q, e>>)
    BY <1>p DEF Behind
  <2>1. CASE x \in Range(out)
    BY <1>a, <2>1 DEF Ordering, Behind
  <2>2. CASE x \in Range(data)
    <3>1. PICK i \in DOMAIN data : x = data[i]
      BY <2>2 DEF Range
    <3> QED BY <1>d, <3>1
  <2> QED BY <1>r, <2>1, <2>2
<1>2. ASSUME NEW i \in DOMAIN out', NEW j \in DOMAIN out', i < j
      PROVE  Before(out'[i], out'[j])
  <2>1. CASE i <= Len(out) /\ j <= Len(out)
    <3>1. i \in DOMAIN out /\ j \in DOMAIN out /\ out'[i] = out[i] /\ out'[j] = out[j]
      BY <1>c, <2>1
    <3> QED BY <1>2, <3>1 DEF Ordering, Sorted
  <2>2. CASE i <= Len(out) /\ j > Len(out)
    <3>1. i \in DOMAIN out /\ out'[i] = out[i]
      BY <1>c, <2>2
    <3>2. PICK l \in DOMAIN data : out'[j] = data[l]
      BY <1>c, <2>2
    <3>3. PICK e \in DOMAIN Script(r) : data[l] = <<r, e>> /\ e \in Ahead(r)
      BY <1>d
    <3>4. out[i] \in Range(out)
      BY <3>1 DEF Range
    <3> QED BY <1>f, <3>1, <3>2, <3>3, <3>4 DEF Ordering, Behind
  <2>3. CASE i > Len(out) /\ j > Len(out)
    <3>1. PICK k \in DOMAIN data, l \in DOMAIN data :
             k < l /\ out'[i] = data[k] /\ out'[j] = data[l]
      <4>1. i - Len(out) \in DOMAIN data /\ j - Len(out) \in DOMAIN data
        BY <1>c, <2>3
      <4>2. out'[i] = data[i - Len(out)] /\ out'[j] = data[j - Len(out)]
        BY <1>c, <2>3
      <4>3. i - Len(out) < j - Len(out)
        BY <1>c, <1>2
      <4> QED BY <4>1, <4>2, <4>3
    <3>2. PICK e \in DOMAIN Script(r) : data[k] = <<r, e>> /\ k \in DOMAIN L /\ L[k] = ItemAt(r, e)
      BY <1>d
    <3>3. PICK f \in DOMAIN Script(r) : data[l] = <<r, f>> /\ l \in DOMAIN L /\ L[l] = ItemAt(r, f)
      BY <1>d
    <3>4. e < f
      BY <1>l, <3>1, <3>2, <3>3 DEF Row
    <3>5. e \in Toward(r, <<r, e>>) /\ f \in Toward(r, <<r, f>>)
      BY DEF Toward
    <3> QED BY <1>f, <3>1, <3>2, <3>3, <3>4, <3>5 DEF Before
  <2>4. i \in Int /\ j \in Int /\ Len(out) \in Int
    BY <1>c
  <2> QED BY <1>2, <2>1, <2>2, <2>3, <2>4
<1>3. Range(data) \subseteq Whole
  <2> SUFFICES ASSUME NEW i \in DOMAIN data PROVE data[i] \in Whole
    BY DEF Range
  <2>1. PICK e \in DOMAIN Script(r) : Script(r)[e] = Data /\ data[i] = <<r, e>>
    BY <1>d
  <2>2. Main \in Above(r)
    BY <1>f DEF Ordering, Rooted
  <2> QED BY <1>f, <2>1, <2>2 DEF Whole
<1>4. Sorted'
  BY <1>p, <1>r, <1>2, <1>3 DEF Sorted, Ordering
<1> QED BY <1>1, <1>4

(* The parts of the invariant that are left when the order is known. *)
LEMMA WriteKeeps ==
    ASSUME Base, Base', Ordering, Live' = Live, NEW r, NEW in \in Seq(Items), NEW n \in Int,
           Fills(r, in, n), NEW L, L = postponed[r] \o in, NEW d \in Nat, Rest(r, L, d),
           Above(active) \subseteq Above(active'), Leading',
           \A c \in Range(L) \cap Subs : c \in Above(active') \/ c \in Range(postponed'[r])
    PROVE  Rooted' /\ InTurn' /\ Attached'
<1>f. r \in Requests /\ site' = site
  BY DEF Fills
<1>p. \A q : Script(q)' = Script(q) /\ Above(q)' = Above(q) /\ Parent(q)' = Parent(q)
  BY <1>f, PageStays
<1>c. Above(active)' = Above(active')
  BY <1>f DEF Above
<1>a. InTurn' /\ \A q \in Live : \A e \in Ahead(q)' : e \in Ahead(q)
  BY AheadLess
<1>1. Rooted'
  BY <1>p DEF Rooted, Ordering
<1>l. Range(postponed[r]) \subseteq Range(L)
  <2>1. postponed[r] \in Seq(Items) /\ in \in Seq(Items)
    BY <1>f, Typed
  <2> QED BY <2>1, RangeConcat
<1>2. Attached'
  <2> SUFFICES ASSUME NEW q \in Live, Ahead(q)' # {}, NEW c \in Above(q) \cap Subs
               PROVE  c \in Above(active') \/ c \in Range(postponed'[Parent(c)])
    BY <1>p, <1>c DEF Attached
  <2>1. Ahead(q) # {}
    BY <1>a
  <2>2. c \in Above(active) \/ c \in Range(postponed[Parent(c)])
    BY <2>1 DEF Attached, Ordering
  <2>3. CASE c \in Above(active)
    BY <2>3
  <2>4. CASE c \in Range(postponed[Parent(c)]) /\ Parent(c) = r
    BY <1>l, <2>4
  <2>5. CASE c \in Range(postponed[Parent(c)]) /\ Parent(c) # r
    <3>1. c \in Live
      BY LiveIs DEF Ordering, Rooted
    <3>2. Parent(c) \in Requests
      BY <3>1, ParentLives, LiveIs
    <3> QED BY <2>5, <3>2 DEF Rest
  <2> QED BY <2>2, <2>3, <2>4, <2>5
<1> QED BY <1>a, <1>1, <1>2

(* The output filters keep the order. *)
LEMMA OrderWrites ==
    ASSUME Base, Base', Ordering, Live' = Live, NEW r \in Requests, EmitData(r) \/ Flush(r)
    PROVE  Ordering'
<1>1. PICK in \in Seq(Items), n \in Int,
           next \in {Call("content", r, "ok"), Call("written", r, "ok"), Return} :
              /\ Fills(r, in, n)
              /\ GoesOn(r, postponed[r] \o in, next) \/ Breaks(r, postponed[r] \o in)
  BY WriteIs
<1>L. PICK L : L = postponed[r] \o in
  OBVIOUS
<1>f. /\ r \in Live /\ site' = site /\ site \in Sites /\ n >= pos[r] /\ pos[r] \in Int
      /\ postponed \in [Requests -> Seq(Items)]
  BY <1>1, Typed DEF Fills, Base, TypeOK
<1>p. /\ \A q : Script(q)' = Script(q) /\ Above(q)' = Above(q)
      /\ Above(active)' = Above(active')
  BY <1>f, PageStays DEF Above
<1>l. Filled(r, n, L)
  BY <1>1, <1>L, FilledIs
<1>t. /\ L \in Seq(Items) /\ Len(L) \in Nat /\ DOMAIN L = 1..Len(L)
      /\ \A k \in DOMAIN L : L[k] \in Items
  <2>1. L \in Seq(Items)
    BY <1>l DEF Filled
  <2> QED BY <2>1
<1>2. CASE Keeps(r, L) \/ Breaks(r, L)
  <2>1. /\ postponed' = [postponed EXCEPT ![r] = L] /\ UNCHANGED <<active, out>>
    BY <1>2 DEF Keeps, Breaks
  <2>2. postponed'[r] = L /\ \A q \in Requests : q # r => postponed'[q] = postponed[q]
    BY <1>f, <2>1
  <2>3. Rest(r, L, 0)
    BY <1>t, <2>2 DEF Rest
  <2>a. /\ \A q \in Live : \A e \in Ahead(q)' : e \in Ahead(q)
        /\ \A q \in Requests : q # r => InList(q)' = InList(q)
        /\ \A e \in InList(r)' : \E k \in DOMAIN L : L[k] = ItemAt(r, e) /\ k > 0
    BY <1>1, <1>L, <2>1, <2>3, AheadLess
  <2>4. Leading'
    <3> SUFFICES ASSUME NEW p \in Requests, NEW k \in DOMAIN Script(p), Script(p)[k] \in Above(active),
                        NEW e \in InList(p)'
                 PROVE  k <= e
      BY <1>p, <2>1 DEF Leading
    <3>1. CASE e \in InList(p)
      BY <3>1 DEF Ordering, Leading
    <3>2. CASE e \notin InList(p)
      <4>1. p = r
        BY <2>a, <3>2
      <4>2. e \in DOMAIN Script(r) /\ \E l \in DOMAIN L : L[l] = ItemAt(r, e)
        BY <1>p, <2>a, <4>1 DEF InList
      <4>3. e > pos[r]
        BY <1>l, <3>2, <4>1, <4>2 DEF Filled
      <4>4. Script(p)[k] \in Live
        BY BaseTyped DEF Ordering, Rooted
      <4>5. k <= pos[r]
        BY <4>1, <4>4, WasMade
      <4> QED BY <1>f, <4>1, <4>2, <4>3, <4>5, ScriptItem
    <3> QED BY <3>1, <3>2
  <2>5. Behind' /\ Sorted'
    BY <1>f, <2>1, <2>a, BehindStays DEF Ordering
  <2>6. Rooted' /\ InTurn' /\ Attached'
    BY <1>1, <1>L, <2>1, <2>2, <2>3, <2>4, WriteKeeps
  <2> QED BY <2>4, <2>5, <2>6 DEF Ordering
<1>3. CASE SendsAll(r, L) /\ r = active
  <2>1. /\ \A i \in DOMAIN L : L[i] \notin Subs
        /\ postponed' = [postponed EXCEPT ![r] = <<>>] /\ out' = out \o L
        /\ active' = active
    BY <1>3 DEF SendsAll
  <2>2. postponed'[r] = <<>> /\ \A q \in Requests : q # r => postponed'[q] = postponed[q]
    BY <1>f, <2>1
  <2>3. Rest(r, L, Len(L))
    BY <2>2 DEF Rest
  <2>4. Goes(r, L, Len(L), L)
    <3>1. \A k \in 1..Len(L) : L[k] \in Requests \X (Nat \ {0})
      BY <1>t, <2>1, ItemsAre DEF AnyPart
    <3>2. L \in Seq(Requests \X (Nat \ {0}))
      BY <1>t, <3>1
    <3>3. \A i \in DOMAIN L : i <= Len(L)
      BY <1>t
    <3> QED BY <2>1, <3>2, <3>3 DEF Goes
  <2>a. /\ \A q \in Requests : q # r => InList(q)' = InList(q)
        /\ \A e \in InList(r)' : \E k \in DOMAIN L : L[k] = ItemAt(r, e) /\ k > Len(L)
    BY <1>1, <1>t, <1>L, <2>1, <2>3, AheadLess
  <2>5. Leading'
    <3> SUFFICES ASSUME NEW p \in Requests, NEW k \in DOMAIN Script(p), Script(p)[k] \in Above(active),
                        NEW e \in InList(p)'
                 PROVE  k <= e
      BY <1>p, <2>1 DEF Leading
    <3>1. p # r
      BY <1>t, <2>a
    <3> QED BY <2>a, <3>1 DEF Ordering, Leading
  <2>6. Behind' /\ Sorted'
    BY <1>1, <1>3, <1>t, <1>L, <2>1, <2>3, <2>4, OrderSends
  <2>7. Rooted' /\ InTurn' /\ Attached'
    <3>1. \A c \in Range(L) \cap Subs : FALSE
      BY <2>1 DEF Range
    <3> QED BY <1>1, <1>t, <1>L, <2>1, <2>3, <2>5, <3>1, WriteKeeps
  <2> QED BY <2>5, <2>6, <2>7 DEF Ordering
<1>4. ASSUME NEW f \in DOMAIN L, SendsUpTo(r, L, f), r = active
      PROVE  Ordering'
  <2> DEFINE rest == SubSeq(L, f + 1, Len(L))
             data == SubSeq(L, 1, f - 1)
  <2>1. /\ L[f] \in Subs
        /\ \A j \in DOMAIN L : j < f => L[j] \notin Subs
        /\ postponed' = [postponed EXCEPT ![r] = rest]
        /\ out' = out \o data
        /\ active' = L[f]
    BY <1>4 DEF SendsUpTo
  <2>2. postponed'[r] = rest /\ \A q \in Requests : q # r => postponed'[q] = postponed[q]
    BY <1>f, <2>1
  <2>f. f \in Nat /\ f \in 1..Len(L)
    BY <1>t
  <2>r. /\ DOMAIN rest = 1..Len(L) - f
        /\ \A i \in 1..Len(L) - f : rest[i] = L[f + i] /\ f + i \in DOMAIN L
    BY <1>t, SubSeqIs
  <2>3. Rest(r, L, f)
    <3>1. \A k \in DOMAIN rest : k + f \in DOMAIN L /\ rest[k] = L[k + f]
      <4> SUFFICES ASSUME NEW k \in 1..Len(L) - f PROVE k + f \in DOMAIN L /\ rest[k] = L[k + f]
        BY <2>r
      <4>1. f + k = k + f
        BY <1>t, <2>f
      <4> QED BY <2>r, <4>1
    <3> HIDE DEF rest
    <3> QED BY <2>2, <3>1 DEF Rest
  <2>d. /\ data \in Seq(Items) /\ DOMAIN data = 1..f - 1
        /\ \A i \in 1..f - 1 : data[i] = L[i] /\ i \in DOMAIN L
    <3>1. data \in Seq(Items) /\ Len(data) = f - 1 /\ \A i \in 1..f - 1 : data[i] = L[i]
      BY <1>t, <2>f, SubSeqProperties
    <3> HIDE DEF data
    <3> QED BY <1>t, <2>f, <3>1
  <2> HIDE DEF data, rest
  <2>4. Goes(r, L, f, data)
    <3>1. \A i \in 1..f - 1 : i < f /\ i <= f /\ L[i] \notin Subs /\ L[i] \in Items
      <4> SUFFICES ASSUME NEW i \in 1..f - 1
                   PROVE  i < f /\ i <= f /\ L[i] \notin Subs /\ L[i] \in Items
        OBVIOUS
      <4>1. i < f /\ i <= f
        BY <2>f
      <4>2. i \in DOMAIN L
        BY <2>d
      <4> QED BY <1>t, <2>1, <4>1, <4>2
    <3>2. \A i \in 1..Len(data) : data[i] \in Requests \X (Nat \ {0})
      <4>1. Len(data) = f - 1
        BY <2>d, <2>f
      <4> QED BY <2>d, <3>1, <4>1, ItemsAre DEF AnyPart
    <3>3. data \in Seq(Requests \X (Nat \ {0}))
      <4>1. data \in Seq(Items)
        BY <2>d
      <4> QED BY <3>2, <4>1
    <3>4. ASSUME NEW i \in 1..f - 1, NEW k \in DOMAIN L, L[k] \in Subs PROVE i < k
      <4>1. ~(k < f)
        BY <2>1, <3>4
      <4> QED BY <1>t, <2>f, <4>1
    <3> QED BY <2>1, <2>d, <3>1, <3>3, <3>4 DEF Goes
  <2>5. PICK m \in DOMAIN Script(r) : ItemAt(r, m) = L[f] /\ Script(r)[m] = L[f]
    <3>1. PICK m \in 1..n : L[f] = ItemAt(r, m)
      BY <1>l DEF Filled, Row
    <3>2. m \in DOMAIN Script(r)
      <4>1. n <= Len(Script(r)) /\ Script(r) \in Seq(Subs \cup {Data})
        BY <1>1, <1>f, SiteType DEF Fills
      <4> QED BY <4>1
    <3>3. ItemAt(r, m) # <<r, m>>
      BY <1>f, <2>1, <3>1, <3>2, ScriptItem, PartsAreNoSubs DEF AnyPart
    <3> QED BY <3>1, <3>2, <3>3 DEF ItemAt
  <2>6. Above(active') = {L[f]} \cup Above(active)
    BY <1>4, <1>f, <2>1, <2>5, AboveSub
  <2>a. /\ \A q \in Requests : q # r => InList(q)' = InList(q)
        /\ \A e \in InList(r)' : \E k \in DOMAIN L : L[k] = ItemAt(r, e) /\ k > f
    BY <1>1, <1>L, <2>3, <2>6, <2>f, AheadLess
  <2>7. Leading'
    <3> SUFFICES ASSUME NEW p \in Requests, NEW k \in DOMAIN Script(p), Script(p)[k] \in Above(active'),
                        NEW e \in InList(p)'
                 PROVE  k <= e
      BY <1>p DEF Leading
    <3>1. CASE Script(p)[k] = L[f]
      <4>1. p = r /\ k = m
        BY <1>f, <2>1, <2>5, <3>1, SiteType
      <4>2. PICK l \in DOMAIN L : L[l] = ItemAt(r, e) /\ l > f
        BY <2>a, <4>1
      <4>3. e \in DOMAIN Script(r) /\ f < l
        BY <1>p, <1>t, <4>1, <4>2 DEF InList
      <4>4. m < e
        BY <1>l, <2>5, <4>2, <4>3 DEF Filled, Row
      <4> QED BY <1>f, <4>1, <4>3, <4>4, ScriptItem
    <3>2. CASE Script(p)[k] \in Above(active)
      <4>1. CASE e \in InList(p)
        BY <3>2, <4>1 DEF Ordering, Leading
      <4>2. CASE e \notin InList(p)
        <5>1. p = r
          BY <2>a, <4>2
        <5>2. e \in DOMAIN Script(r) /\ \E l \in DOMAIN L : L[l] = ItemAt(r, e)
          BY <1>p, <2>a, <5>1 DEF InList
        <5>3. e > pos[r]
          BY <1>l, <4>2, <5>1, <5>2 DEF Filled
        <5>4. Script(p)[k] \in Live
          BY <3>2, BaseTyped DEF Ordering, Rooted
        <5>5. k <= pos[r]
          BY <5>1, <5>4, WasMade
        <5> QED BY <1>f, <5>1, <5>2, <5>3, <5>5, ScriptItem
      <4> QED BY <4>1, <4>2
    <3> QED BY <2>6, <3>1, <3>2
  <2>8. Behind' /\ Sorted'
    BY <1>1, <1>4, <1>L, <2>3, <2>4, <2>6, <2>f, OrderSends
  <2>9. Rooted' /\ InTurn' /\ Attached'
    <3>1. ASSUME NEW c \in Range(L) \cap Subs
          PROVE  c \in Above(active') \/ c \in Range(postponed'[r])
      <4>1. PICK k \in DOMAIN L : L[k] = c
        BY DEF Range
      <4>2. CASE k = f
        BY <2>6, <4>1, <4>2
      <4>3. CASE k # f
        <5>1. ~(k < f)
          BY <2>1, <4>1
        <5>2. k - f \in 1..Len(L) - f /\ f + (k - f) = k
          BY <1>t, <2>f, <4>3, <5>1
        <5>3. rest[k - f] = L[k]
          BY <2>r, <5>2
        <5> QED BY <2>2, <2>r, <4>1, <5>2, <5>3 DEF Range
      <4> QED BY <4>2, <4>3
    <3> QED BY <1>1, <1>L, <2>3, <2>6, <2>7, <2>f, <3>1, WriteKeeps
  <2> QED BY <2>7, <2>8, <2>9 DEF Ordering
<1> QED BY <1>1, <1>L, <1>2, <1>3, <1>4 DEF GoesOn

(* A new subrequest stands last in the list of the one that makes it. *)
LEMMA OrderSubrequest ==
    ASSUME Base, Base', Ordering, NEW r \in Requests, Subrequest(r)
    PROVE  Ordering'
<1>m. PICK n : n = pos[r] + 1
  OBVIOUS
<1>s. PICK s : s = Script(r)[n]
  OBVIOUS
<1>a. /\ pos' = [pos EXCEPT ![r] = @ + 1]
      /\ active' = IF FirstInLine(r) THEN s ELSE active
      /\ postponed' = [postponed EXCEPT ![r] = Append(@, s)]
      /\ UNCHANGED <<site, handler, upstream, out>>
      /\ Running("content") /\ call.r = r /\ ~Made(r) /\ s \in Subs
      /\ call' \in Proceed(r)
  BY <1>m, <1>s DEF Subrequest
<1>t. /\ site \in Sites /\ pos[r] \in Int /\ pos[r] >= 0 /\ pos[r] <= Len(Script(r))
      /\ Len(Script(r)) \in Nat /\ DOMAIN Script(r) = 1..Len(Script(r))
      /\ pos \in [Requests -> Int] /\ postponed \in [Requests -> Seq(Items)]
  <2>1. site \in Sites /\ (Running("content") => pos[call.r] >= 0)
    BY DEF Base, TypeOK, Started
  <2> QED BY <1>a, <2>1, Typed, SiteType
<1>n. n \in DOMAIN Script(r) /\ n \in Int /\ n >= 1 /\ n > pos[r] /\ n \in pos[r]..Len(Script(r))
  BY <1>m, <1>a, <1>t DEF Made
<1>l. /\ s \notin Live /\ Live' = Live \cup {s} /\ Parent(s) = r
  BY <1>m, <1>s, NewIs, BaseSubrequest
<1>i. ItemAt(r, n) = s /\ s \in Items /\ s \in Requests
  BY <1>a, <1>s, <1>n, Hangs, Names DEF Items
<1>r. r \in Live /\ Makes(r)
  BY <1>a, BaseTyped DEF Makes, Running, Fn
<1>c. active' = s => r = active /\ postponed[r] = <<>>
  <2>1. active # s
    BY <1>l, BaseTyped
  <2> QED BY <1>a, <2>1 DEF FirstInLine
<1>ac. active' \in {active, s}
  BY <1>a
<1>p. /\ \A q : Script(q)' = Script(q) /\ Above(q)' = Above(q) /\ Parent(q)' = Parent(q)
      /\ Above(active)' = Above(active')
      /\ \A y, z : Before(y, z)' <=> Before(y, z)
      /\ Whole' = Whole
  BY <1>a, PageStays DEF Above
<1>u. Above(s) = {s} \cup Above(r)
  BY <1>a, <1>s, <1>t, <1>n, AboveSub
<1>v. Above(active) \subseteq Above(active')
  BY <1>ac, <1>c, <1>u
<1>f. Fills(r, <<s>>, n)
  <2>1. \A q \in Requests : Makes(q)' => Makes(q)
    <3> SUFFICES ASSUME NEW q \in Requests, q # r, Makes(q)' PROVE Makes(q)
      BY <1>r
    <3>1. call'.fn = "content" => call'.r = r
      BY <1>a DEF Proceed, Call, Return
    <3>2. pos'[q] = pos[q]
      BY <1>a, <1>t
    <3> QED BY <1>a, <3>1, <3>2 DEF Makes, Running, Buffered, Made, Script
  <2>2. pos' = [pos EXCEPT ![r] = n]
    BY <1>m, <1>a
  <2> QED BY <1>m, <1>a, <1>n, <1>i, <1>r, <2>1, <2>2 DEF Fills
<1>L. PICK L : L = postponed[r] \o <<s>>
  OBVIOUS
<1>q. /\ \A q \in Requests : q # r => postponed'[q] = postponed[q]
      /\ postponed'[r] = L /\ L \in Seq(Items) /\ Range(L) = Range(postponed[r]) \cup {s}
      /\ \A k \in DOMAIN L : k \in Int
  <2>1. postponed[r] \in Seq(Items) /\ <<s>> \in Seq(Items)
    BY <1>t, <1>i
  <2>2. postponed'[r] = Append(postponed[r], s) /\ \A q \in Requests : q # r => postponed'[q] = postponed[q]
    BY <1>a, <1>t
  <2>3. Append(postponed[r], s) = L
    BY <1>L, <1>i, <2>1, AppendIsConcat
  <2>6. /\ Append(postponed[r], s) \in Seq(Items)
        /\ Range(Append(postponed[r], s)) = Range(postponed[r]) \cup {s}
    BY <1>i, <2>1, RangeAppend
  <2>4. L \in Seq(Items) /\ Range(L) = Range(postponed[r]) \cup {s}
    BY <2>3, <2>6
  <2>5. \A k \in DOMAIN L : k \in Int
    BY <2>4
  <2> QED BY <2>2, <2>3, <2>4, <2>5
<1>o. Rest(r, L, 0)
  BY <1>q DEF Rest
<1>in. <<s>> \in Seq(Items)
  BY <1>i
<1>g. Filled(r, n, L)
  BY <1>f, <1>L, <1>n, <1>in, FilledIs
<1>h. /\ InTurn'
      /\ \A q \in Live : \A e \in Ahead(q)' : e \in Ahead(q)
      /\ \A q \in Requests : q # r => InList(q)' = InList(q)
      /\ \A e \in InList(r)' : \E k \in DOMAIN L : L[k] = ItemAt(r, e) /\ k > 0
  BY <1>f, <1>L, <1>n, <1>in, <1>o, <1>v, AheadLess
<1>e. n \in Ahead(r)
  BY <1>n, <1>r DEF Ahead
<1>w. \A e \in InList(r)' : e \in InList(r) \/ e = n
  <2> SUFFICES ASSUME NEW e \in InList(r)', e \notin InList(r) PROVE e = n
    OBVIOUS
  <2>1. e \in DOMAIN Script(r)
    BY <1>p DEF InList
  <2>2. e > pos[r]
    BY <1>g, <1>h, <2>1 DEF Filled
  <2>3. e <= n
    <3>1. PICK k \in DOMAIN L : L[k] = ItemAt(r, e)
      BY <1>h
    <3>2. PICK f \in 1..n : L[k] = ItemAt(r, f)
      BY <1>g DEF Filled, Row
    <3>3. f \in DOMAIN Script(r) /\ f <= n
      BY <1>t, <1>n
    <3>4. e = f
      BY <1>t, <2>1, <3>1, <3>2, <3>3, ItemsDiffer
    <3> QED BY <3>3, <3>4
  <2> QED BY <1>m, <1>t, <2>1, <2>2, <2>3
<1>1. Rooted'
  BY <1>p, <1>l, <1>u, <1>r DEF Rooted, Ordering
<1>2. Leading'
  <2> SUFFICES ASSUME NEW p \in Requests, NEW k \in DOMAIN Script(p), Script(p)[k] \in Above(active'),
                      NEW e \in InList(p)'
               PROVE  k <= e
    BY <1>p DEF Leading
  <2>k. k \in Nat
    BY <1>t, ScriptItem
  <2>1. CASE Script(p)[k] \in Above(active)
    <3>1. CASE e \in InList(p)
      BY <2>1, <3>1 DEF Ordering, Leading
    <3>2. CASE e \notin InList(p)
      <4>1. p = r /\ e = n
        BY <1>h, <1>w, <3>2
      <4>2. Script(p)[k] \in Live
        BY <2>1, BaseTyped DEF Ordering, Rooted
      <4>3. k <= pos[r]
        BY <4>1, <4>2, WasMade
      <4> QED BY <1>n, <1>t, <2>k, <4>1, <4>3
    <3> QED BY <3>1, <3>2
  <2>2. CASE Script(p)[k] \notin Above(active)
    <3>1. active' = s /\ r = active /\ postponed[r] = <<>>
      BY <1>ac, <1>c, <2>2
    <3>2. Script(p)[k] = s
      BY <1>u, <2>2, <3>1
    <3>3. p = r /\ k = n
      BY <1>a, <1>s, <1>t, <1>n, <3>2, SiteType
    <3>4. InList(r) = {}
      BY <3>1 DEF InList, Range
    <3>5. e = n
      BY <1>w, <3>3, <3>4
    <3> QED BY <1>n, <3>3, <3>5
  <2> QED BY <2>1, <2>2
<1>3. Attached'
  <2> SUFFICES ASSUME NEW q \in Live', Ahead(q)' # {}, NEW c \in Above(q) \cap Subs
               PROVE  c \in Above(active') \/ c \in Range(postponed'[Parent(c)])
    BY <1>p DEF Attached
  <2>1. PICK b \in Live : c = s \/ (c \in Above(b) /\ Ahead(b) # {})
    <3>1. CASE q = s
      BY <1>e, <1>r, <1>u, <3>1
    <3>2. CASE q # s
      BY <1>h, <1>l, <3>2
    <3> QED BY <3>1, <3>2
  <2>2. CASE c = s
    BY <1>l, <1>q, <2>2
  <2>3. CASE c \in Above(b) /\ Ahead(b) # {}
    <3>1. c \in Above(active) \/ c \in Range(postponed[Parent(c)])
      BY <2>3 DEF Ordering, Attached
    <3>2. Parent(c) \in Requests
      <4>1. c \in Live
        BY <2>3 DEF Ordering, Rooted
      <4> QED BY <4>1, ParentLives, LiveIs
    <3>3. Range(postponed[Parent(c)]) \subseteq Range(postponed'[Parent(c)])
      BY <1>q, <3>2
    <3> QED BY <1>v, <3>1, <3>3
  <2> QED BY <2>1, <2>2, <2>3
<1>4. Behind'
  <2> SUFFICES ASSUME NEW x \in Range(out), NEW q \in Live', NEW e \in Ahead(q)'
               PROVE  Before(x, <<q, e>>)
    BY <1>p, <1>a DEF Behind
  <2>1. CASE q \in Live
    BY <1>h, <2>1 DEF Ordering, Behind
  <2>2. CASE q = s
    <3>1. Before(x, <<r, n>>)
      BY <1>e, <1>r DEF Ordering, Behind
    <3>2. s \in Above(s)
      BY <1>u
    <3>3. <<q, e>>[1] \in Requests /\ Script(r)[n] \in Above(<<q, e>>[1])
      BY <1>i, <1>s, <2>2, <3>2
    <3> QED BY <1>t, <1>n, <3>1, <3>3, BeforeItem
  <2> QED BY <1>l, <2>1, <2>2
<1>5. Sorted'
  BY <1>p, <1>a DEF Sorted, Ordering
<1> QED BY <1>h, <1>1, <1>2, <1>3, <1>4, <1>5 DEF Ordering

(* The right to send goes back to the parent. *)
LEMMA OrderActive ==
    ASSUME Base, Base', Ordering, Apart, Live' = Live, NEW r \in Requests, FinalizeActive(r)
    PROVE  Ordering'
<1>a. /\ r = active /\ r \in Subs /\ ~Pending(r) /\ call.fn = "finalize" /\ call.r = r
      /\ UNCHANGED <<site, handler, pos, upstream, out>>
      /\ postponed' = [postponed EXCEPT ![Parent(r)] = DropFirst(@, r)]
      /\ active' = Parent(r) /\ call' = Return
  BY DEF FinalizeActive, Finalizes, Running
<1>l. r \in Live
  BY <1>a, BaseTyped
<1>P. PICK p : p = Parent(r)
  OBVIOUS
<1>t. /\ site \in Sites /\ pos \in [Requests -> Int] /\ postponed \in [Requests -> Seq(Items)]
      /\ p \in Live /\ p \in Requests /\ active' = p
  BY <1>a, <1>l, <1>P, Typed, ParentLives, LiveIs DEF Base, TypeOK
<1>k. PICK m \in DOMAIN Script(p) : Script(p)[m] = r
  <2>1. r \in Range(Script(p))
    BY <1>a, <1>l, <1>P, ParentLives
  <2> QED BY <2>1 DEF Range
<1>u. Above(r) = {r} \cup Above(p)
  BY <1>a, <1>t, <1>k, AboveSub
<1>p. /\ \A q : Script(q)' = Script(q) /\ Above(q)' = Above(q) /\ Parent(q)' = Parent(q)
      /\ Above(active)' = Above(p)
  BY <1>a, <1>t, PageStays DEF Above
<1>e. postponed[r] = <<>> /\ Ahead(r) = {}
  <2>1. postponed[r] = <<>> /\ ~Buffered(r)
    BY <1>a DEF Pending, Unsent
  <2>2. InList(r) = {}
    BY <2>1 DEF InList, Range
  <2>3. ~Makes(r)
    BY <1>a, <2>1 DEF Makes, Apart, Late, Running
  <2> QED BY <2>1, <2>2, <2>3 DEF Ahead
<1>m. \A q \in Requests : Makes(q)' => Makes(q)
  <2>1. call'.fn # "content"
    BY <1>a, ReturnIs
  <2> QED BY <1>a, <2>1, MakesLess
<1>L. PICK L : L = postponed[p]
  OBVIOUS
<1>s. /\ L \in Seq(Items) /\ Len(L) \in Nat /\ DOMAIN L = 1..Len(L)
      /\ postponed'[p] = DropFirst(L, r)
      /\ \A q \in Requests : q # p => postponed'[q] = postponed[q]
  <2>1. L \in Seq(Items)
    BY <1>L, <1>t
  <2>2. /\ postponed'[p] = DropFirst(L, r)
        /\ \A q \in Requests : q # p => postponed'[q] = postponed[q]
    BY <1>a, <1>L, <1>P, <1>t
  <2> QED BY <2>1, <2>2
<1>r. Row(p, L, pos[p])
  BY <1>L, <1>t, TurnIsRow DEF Ordering
<1>i. \A k \in DOMAIN L : \A e \in DOMAIN Script(p) : L[k] = ItemAt(p, e) => e \in InList(p)
  BY <1>L DEF InList, Range
(* The first item goes if it is r. *)
<1>d. PICK d \in {0, 1} :
         /\ Rest(p, L, d)
         /\ d = 0 => postponed'[p] = L /\ (L # <<>> => L[1] # r)
         /\ d = 1 => /\ L[1] = r /\ 1 \in DOMAIN L /\ DOMAIN postponed'[p] = 1..Len(L) - 1
                     /\ \A i \in 1..Len(L) - 1 : postponed'[p][i] = L[i + 1]
  <2>1. CASE DropFirst(L, r) = L /\ (L # <<>> => L[1] # r)
    <3>1. postponed'[p] = L
      BY <1>s, <2>1
    <3>2. Rest(p, L, 0)
      BY <1>s, <3>1 DEF Rest
    <3> WITNESS 0 \in {0, 1}
    <3> QED BY <2>1, <3>1, <3>2
  <2>2. CASE /\ L # <<>> /\ L[1] = r /\ DropFirst(L, r) = Tail(L)
             /\ Tail(L) \in Seq(Items) /\ Len(Tail(L)) = Len(L) - 1
             /\ \A i \in 1..Len(L) - 1 : Tail(L)[i] = L[i + 1]
    <3>1. DOMAIN postponed'[p] = 1..Len(L) - 1
      BY <1>s, <2>2
    <3>2. \A i \in 1..Len(L) - 1 : i + 1 \in DOMAIN L
      BY <1>s
    <3>3. Rest(p, L, 1)
      BY <1>s, <2>2, <3>1, <3>2 DEF Rest
    <3>4. 1 \in DOMAIN L
      BY <1>s, <2>2
    <3> QED BY <1>s, <2>2, <3>1, <3>3, <3>4
  <2> QED BY <1>s, <2>1, <2>2, DropIs
<1>1. /\ InTurn'
      /\ \A q \in Requests : q # p => InList(q)' = InList(q)
      /\ \A e \in InList(p)' : \E k \in DOMAIN L : L[k] = ItemAt(p, e) /\ k > d
  <2>1. PICK n \in Int : n = pos[p] /\ Row(p, L, n)
    BY <1>t, <1>r
  <2>2. pos' = [pos EXCEPT ![p] = n]
    BY <1>a, <1>t, <2>1
  <2>3. InTurn /\ d \in Nat /\ site' = site
    BY <1>a DEF Ordering
  <2> QED BY <1>t, <1>d, <2>1, <2>2, <2>3, RestInTurn
<1>2. \A q \in Requests : \A e \in InList(q)' : e \in DOMAIN Script(q) /\ e \in InList(q)
  <2> SUFFICES ASSUME NEW q \in Requests, NEW e \in InList(q)'
               PROVE  e \in DOMAIN Script(q) /\ e \in InList(q)
    OBVIOUS
  <2>1. e \in DOMAIN Script(q)
    BY <1>p DEF InList
  <2> QED BY <1>1, <1>i, <2>1
<1>3. m \notin InList(p)'
  <2> SUFFICES ASSUME m \in InList(p)' PROVE FALSE
    OBVIOUS
  <2>1. PICK k \in DOMAIN L : L[k] = ItemAt(p, m) /\ k > d
    BY <1>1
  <2>2. ItemAt(p, m) = r /\ m \in Nat
    BY <1>a, <1>k, <1>t, Hangs, ScriptItem
  <2>3. k \in 1..Len(L) /\ 1 \in DOMAIN L
    BY <1>s
  <2>4. CASE d = 1
    <3>1. 1 < k /\ L[1] = ItemAt(p, m)
      BY <1>d, <2>1, <2>2, <2>3, <2>4
    <3>2. m < m
      BY <1>r, <2>1, <2>3, <3>1 DEF Row
    <3> QED BY <2>2, <3>2
  <2>5. CASE d = 0
    <3>1. L[1] # r
      BY <1>d, <2>3, <2>5
    <3>2. 1 < k
      BY <2>1, <2>2, <2>3, <3>1
    <3>3. PICK e \in 1..pos[p] : L[1] = ItemAt(p, e)
      BY <1>r, <2>3 DEF Row
    <3>4. e \in DOMAIN Script(p)
      <4>1. pos[p] \in Int /\ pos[p] <= Len(Script(p)) /\ Script(p) \in Seq(Subs \cup {Data})
        BY <1>t, Typed, SiteType
      <4> QED BY <4>1
    <3>5. e < m
      BY <1>r, <2>1, <2>3, <3>2, <3>3, <3>4 DEF Row
    <3>6. e \in InList(p)
      BY <1>i, <2>3, <3>3, <3>4
    <3>7. m <= e
      BY <1>a, <1>k, <1>t, <1>u, <3>6 DEF Ordering, Leading
    <3> QED BY <2>2, <3>5, <3>7, <3>4, <1>t, ScriptItem
  <2> QED BY <2>4, <2>5
<1>4. ASSUME NEW q \in Live, NEW e \in Ahead(q)' PROVE e \in Ahead(q)
  <2>1. /\ q \in Requests /\ e \in DOMAIN Script(q)
        /\ (e \in InList(q)' /\ Script(q)[e] \notin Above(p)) \/ (e > pos[q] /\ Makes(q)')
    BY <1>a, <1>p, <1>4, LiveIs DEF Ahead
  <2>2. CASE e \in InList(q)' /\ Script(q)[e] \notin Above(p)
    <3>1. Script(q)[e] # r
      <4> SUFFICES ASSUME Script(q)[e] = r PROVE FALSE
        OBVIOUS
      <4>1. q = p /\ e = m
        BY <1>a, <1>k, <1>t, <2>1, SiteType
      <4> QED BY <1>3, <2>2, <4>1
    <3>2. Script(q)[e] \notin Above(active)
      BY <1>a, <1>u, <2>2, <3>1
    <3> QED BY <1>2, <2>1, <2>2, <3>2 DEF Ahead
  <2>3. CASE e > pos[q] /\ Makes(q)'
    BY <1>m, <2>1, <2>3 DEF Ahead
  <2> QED BY <2>1, <2>2, <2>3
<1>5. Rooted'
  BY <1>p DEF Rooted, Ordering
<1>6. Leading'
  <2> SUFFICES ASSUME NEW q \in Requests, NEW k \in DOMAIN Script(q), Script(q)[k] \in Above(p),
                      NEW e \in InList(q)'
               PROVE  k <= e
    BY <1>p DEF Leading
  <2>1. Script(q)[k] \in Above(active) /\ e \in InList(q)
    BY <1>a, <1>u, <1>2
  <2> QED BY <2>1 DEF Ordering, Leading
<1>7. Attached'
  <2> SUFFICES ASSUME NEW q \in Live, Ahead(q)' # {}, NEW c \in Above(q) \cap Subs
               PROVE  c \in Above(p) \/ c \in Range(postponed'[Parent(c)])
    BY <1>p, <1>t DEF Attached
  <2>1. Ahead(q) # {}
    BY <1>4
  <2>c. \A b \in Above(q) \cap Subs : b \in Above(r) \/ b \in Range(postponed[Parent(b)])
    BY <1>a, <2>1 DEF Ordering, Attached
  <2>2. c # r
    <3> SUFFICES ASSUME c = r PROVE FALSE
      OBVIOUS
    <3>1. q # r /\ r \in Above(q) /\ q \in Requests
      BY <1>e, <2>1, LiveIs
    <3>2. PICK i \in DOMAIN Script(r) : /\ Script(r)[i] \in Above(q)
                                        /\ Script(r)[i] \in Subs /\ Parent(Script(r)[i]) = r
      BY <1>t, <3>1, Leads
    <3>3. Main \in Above(r)
      BY <1>l DEF Ordering, Rooted
    <3>4. Script(r)[i] \notin Above(r)
      BY <1>t, <3>2, <3>3, NoLoop
    <3>5. Script(r)[i] \in Range(postponed[r])
      BY <2>c, <3>2, <3>4
    <3> QED BY <1>e, <3>5 DEF Range
  <2>3. CASE c \in Above(r)
    BY <1>u, <2>2, <2>3
  <2>4. CASE c \in Range(postponed[Parent(c)]) /\ Parent(c) # p
    <3>1. Parent(c) \in Requests
      <4>1. c \in Live
        BY DEF Ordering, Rooted
      <4> QED BY <4>1, ParentLives, LiveIs
    <3> QED BY <1>s, <2>4, <3>1
  <2>5. CASE c \in Range(postponed[Parent(c)]) /\ Parent(c) = p
    <3>1. PICK k \in DOMAIN L : L[k] = c
      BY <1>L, <2>5 DEF Range
    <3>2. CASE d = 0
      BY <1>d, <1>L, <2>5, <3>2
    <3>3. CASE d = 1
      <4>1. k - 1 \in 1..Len(L) - 1 /\ (k - 1) + 1 = k
        BY <1>d, <1>s, <2>2, <3>1, <3>3
      <4>2. postponed'[p][k - 1] = c /\ k - 1 \in DOMAIN postponed'[p]
        BY <1>d, <3>1, <3>3, <4>1
      <4> QED BY <2>5, <4>2 DEF Range
    <3> QED BY <3>2, <3>3
  <2> QED BY <2>c, <2>3, <2>4, <2>5
<1>8. Behind' /\ Sorted'
  BY <1>a, <1>4, BehindStays DEF Ordering
<1> QED BY <1>1, <1>5, <1>6, <1>7, <1>8 DEF Ordering

(* At first nothing was sent. *)
LEMMA OrderInit == ASSUME Init PROVE Ordering /\ Apart
<1>b. Base
  BY BaseInit
<1>i. /\ site \in Sites /\ out = <<>> /\ upstream = {} /\ call = Return /\ active = Main
      /\ \A r \in Requests : reader[r] = "none" /\ postponed[r] = <<>>
  BY DEF Init
<1>l. Live = {Main}
  BY <1>i, Names DEF Live
<1>m. Above(Main) = {Main} /\ Main \in Requests /\ Main \notin Subs
  BY <1>i, AboveMain, Names
<1>e. \A q \in Requests : InList(q) = {} /\ DOMAIN postponed[q] = {}
  BY <1>i DEF InList, Range
<1>o. Range(out) = {} /\ DOMAIN out = {}
  BY <1>i DEF Range
<1>1. Rooted
  BY <1>l, <1>m DEF Rooted
<1>2. InTurn
  BY <1>e DEF InTurn
<1>3. Leading
  BY <1>e DEF Leading
<1>4. Attached
  BY <1>l, <1>m DEF Attached
<1>5. Behind /\ Sorted
  BY <1>o DEF Behind, Sorted
<1>6. Apart
  BY <1>i, ReturnIs DEF Apart, Late
<1> QED BY <1>1, <1>2, <1>3, <1>4, <1>5, <1>6 DEF Ordering

(* Every step keeps the order. *)
LEMMA OrderNext ==
    ASSUME Base, Apart, Ordering, [Next]_vars
    PROVE  Ordering'
<1>b. Base'
  BY BaseNext
<1>1. CASE UNCHANGED vars
  <2>1. Live' = Live /\ \A q \in Requests : Makes(q)' => Makes(q)
    BY <1>1 DEF vars, Live, Makes, Running, Buffered, Made, Script
  <2>2. Quiet
    BY <1>1, <2>1 DEF vars, Quiet
  <2> QED BY <2>2, OrderQuiet
<1>2. ASSUME NEW r \in Requests, EmitData(r) \/ Flush(r) PROVE Ordering'
  <2>1. Live' = Live
    BY <1>2, BaseEmit
  <2> QED BY <1>b, <1>2, <2>1, OrderWrites
<1>3. ASSUME NEW r \in Requests, Subrequest(r) PROVE Ordering'
  BY <1>b, <1>3, OrderSubrequest
<1>4. ASSUME NEW r \in Requests, FinalizeActive(r) PROVE Ordering'
  <2>1. Live' = Live
    BY <1>4, BaseFinalizes
  <2> QED BY <1>b, <1>4, <2>1, OrderActive
<1>5. ASSUME NEW r \in Requests, EndContent(r) \/ FinalizeDone(r) PROVE Ordering'
  <2>1. Live' = Live
    BY <1>5, BaseSimple DEF Simple
  <2> QED BY <1>5, <2>1, QuietSteps, OrderQuiet
<1>6. ASSUME NEW r \in Requests,
             Written(r) \/ FinalizeError(r) \/ FinalizeLater(r) \/ FinalizeEarly(r)
      PROVE  Ordering'
  <2>1. Live' = Live
    BY <1>6, BaseFinalizes
  <2> QED BY <1>6, <2>1, QuietSteps, OrderQuiet
<1>7. CASE Idle \/ Close \/ Events
  <2>1. Live' = Live
    BY <1>7, BaseSimple DEF Simple
  <2> QED BY <1>7, <2>1, Names, QuietSteps, OrderQuiet
<1>8. CASE FinalizeMain \/ Terminate \/ FinalizeConnection \/ RunPosted \/ WriteEvent \/ ClientLeaves
  <2>1. Live' = Live
    BY <1>8, BaseOther
  <2> QED BY <1>8, <2>1, Names, QuietSteps, OrderQuiet
<1> QED BY <1>1, <1>2, <1>3, <1>4, <1>5, <1>6, <1>7, <1>8 DEF Next, Work, Content, Finalize

-----------------------------------------------------------------------------
(* Nothing is missing *)

(* A request that is to be terminated. *)
Doomed == (Running("finalize") /\ call.rc # "ok") \/ Running("terminate")

(* A part that was not sent waits in a list, or its response, or the item in *)
(* whose response it stands, is still to be made.                            *)
Accounted == \A y \in Whole \ Range(out) :
                \/ y \in Range(postponed[y[1]])
                \/ \E q \in Live : Makes(q) /\ \E j \in Toward(q, y) : j > pos[q]

(* The parts of the page are parts of responses. *)
LEMMA WholeIs ==
    ASSUME site \in Sites, NEW y \in Whole
    PROVE  /\ y[1] \in Requests /\ y[2] \in DOMAIN Script(y[1]) /\ y = <<y[1], y[2]>>
           /\ Script(y[1])[y[2]] = Data /\ ItemAt(y[1], y[2]) = y /\ Main \in Above(y[1])
           /\ y \in AnyPart
<1>1. PICK r \in Requests : y \in {r} \X DOMAIN Script(r)
  BY DEF Whole
<1>2. y[1] \in Requests /\ y[2] \in DOMAIN Script(y[1]) /\ y = <<y[1], y[2]>>
  BY <1>1
<1>3. Script(y[1])[y[2]] = Data /\ Main \in Above(y[1])
  BY DEF Whole
<1>4. ItemAt(y[1], y[2]) = y
  BY <1>2, <1>3 DEF ItemAt
<1>5. y \in AnyPart
  BY <1>2, ScriptItem DEF AnyPart
<1> QED BY <1>2, <1>3, <1>4, <1>5

(* A request that is to be terminated stays so until it is. *)
LEMMA DoomedStays ==
    ASSUME IInv, ~torn, ~freed, Doomed, Next, ~torn'
    PROVE  Doomed'
<1>1. Running("finalize") => call.rc # "done"
  BY DEF IInv, Untorn, Calls
<1>t. call.fn \in {"finalize", "terminate"}
  BY DEF Doomed, Running
<1>2. ~Terminate
  BY DEF Terminate
<1>3. PICK r \in Requests : FinalizeError(r)
  <2>1. ~(RunPosted \/ Idle \/ WriteEvent \/ FinalizeConnection \/ Close \/ Events \/ ClientLeaves)
    BY <1>t DEF RunPosted, Idle, WriteEvent, FinalizeConnection, Close, Events, ClientLeaves,
       UpstreamEvent, PipeAborts, AioDone, Writable, SendTimeout, Lingered, Waits, Running
  <2>2. \A r \in Requests : ~Content(r)
    BY <1>t DEF Content, EmitData, Subrequest, EndContent, Flush, Written, Running
  <2>3. ~FinalizeMain
    BY <1>t DEF FinalizeMain, Finalizes, Doomed, Running
  <2>4. \A r \in Requests : ~FinalizeDone(r) /\ ~FinalizeLater(r) /\ ~FinalizeActive(r) /\ ~FinalizeEarly(r)
    BY <1>1, <1>t DEF FinalizeDone, FinalizeLater, FinalizeActive, FinalizeEarly, Finalizes, Doomed,
       Running
  <2> QED BY <1>2, <2>1, <2>2, <2>3, <2>4 DEF Next, Work, Finalize
<1> QED BY <1>3 DEF FinalizeError, Doomed, Running, Call

(* Who has something to make goes on. *)
Lasting == \A q \in Requests : (Makes(q) /\ ~Made(q)) => Makes(q)'

(* A step that leaves handlers and positions keeps what is still to be made. *)
LEMMA MakesLasts ==
    ASSUME site' = site, pos' = pos, \A q \in upstream : q \in upstream' \/ Made(q),
           \A q \in Requests : handler[q] = "handler" => handler'[q] = "handler",
           Running("content") => Made(call.r)
    PROVE  Lasting
<1>1. \A q \in Requests : Buffered(q) => Buffered(q)'
  BY DEF Buffered, Made, Script
<1> QED BY <1>1 DEF Lasting, Makes, Running

(* The same, when a request is handled. *)
LEMMA MakesHandle ==
    ASSUME Base, NEW r \in Requests, Handle(r), site' = site, call.fn # "content", ~Doomed'
    PROVE  Lasting
<1>t. /\ handler \in [Requests -> HandlerTypes] /\ pos \in [Requests -> Int]
      /\ site.kind[r] \in Kinds /\ (site.kind[r] = "file" => Len(Script(r)) > 0)
      /\ Len(Script(r)) \in Nat
  BY Typed
<1>1. CASE Starts(r)
  <2>1. /\ pos' = [pos EXCEPT ![r] = 0] /\ upstream \subseteq upstream'
        /\ \A q \in Requests : q # r => handler'[q] = handler[q]
        /\ \/ site.kind[r] = "page" /\ call' = Call("content", r, "ok")
           \/ site.kind[r] = "file"
           \/ site.kind[r] = "proxy" /\ r \in upstream'
    BY <1>1, <1>t DEF Starts
  <2>2. Makes(r)'
    <3>1. CASE call' = Call("content", r, "ok")
      BY <3>1 DEF Makes, Running, Call
    <3>2. CASE site.kind[r] = "file"
      <4>1. pos'[r] = 0 /\ Script(r)' = Script(r) /\ Len(Script(r)) # 0
        BY <1>t, <2>1, <3>2 DEF Script
      <4> QED BY <3>2, <4>1 DEF Makes, Buffered, Made
    <3>3. CASE r \in upstream'
      BY <3>3 DEF Makes
    <3> QED BY <2>1, <3>1, <3>2, <3>3
  <2>3. \A q \in Requests : q # r => (Buffered(q) => Buffered(q)')
    BY <2>1, <1>t DEF Buffered, Made, Script
  <2> QED BY <2>1, <2>2, <2>3 DEF Lasting, Makes, Running
<1>2. CASE Downstream(r)
  <2>1. UNCHANGED <<handler, pos>> /\ (call'.fn = "finalize" => call'.rc = "error")
    BY <1>2 DEF Downstream, body, Call, Return
  <2>2. upstream' = upstream \/ call' = Call("finalize", r, "error")
    BY <1>2 DEF Downstream
  <2>3. upstream' = upstream
    BY <2>2 DEF Doomed, Running, Call
  <2> QED BY <2>1, <2>3, MakesLasts DEF Running
<1>3. CASE Flushes(r) \/ Finalizer(r) \/ TerminateHandler(r) \/ Ignores(r) \/ PhasesAgain(r)
  <2>1. UNCHANGED <<handler, pos, upstream>>
    BY <1>3 DEF Flushes, Finalizer, TerminateHandler, Ignores, PhasesAgain, body
  <2> QED BY <2>1, MakesLasts DEF Running
<1> QED BY <1>1, <1>2, <1>3 DEF Handle

(* The steps that write nothing of a response, until the request is to be    *)
(* terminated.                                                               *)
LEMMA MakesSteps ==
    ASSUME Base, Apart, ~Doomed', ~torn', NEW r \in Requests,
           \/ RunPosted \/ WriteEvent \/ Idle \/ EndContent(r) \/ Written(r)
           \/ FinalizeDone(r) \/ FinalizeError(r) \/ FinalizeLater(r) \/ FinalizeEarly(r)
           \/ FinalizeActive(r) \/ FinalizeMain \/ Terminate \/ FinalizeConnection \/ Close
           \/ Events \/ ClientLeaves
    PROVE  Lasting
<1>t. /\ handler \in [Requests -> HandlerTypes] /\ active \in Requests
      /\ posted \in Seq(Requests)
  BY Typed, BaseTyped, LiveIs
<1>s. ASSUME UNCHANGED <<site, pos, upstream>>, call.fn # "content",
             \A q \in Requests : handler[q] = "handler" => handler'[q] = "handler"
      PROVE  Lasting
  BY <1>s, MakesLasts DEF Running
<1>1. CASE RunPosted
  <2>1. Head(posted) \in Requests /\ call.fn # "content"
    BY <1>1, <1>t DEF RunPosted, Running
  <2> QED BY <1>1, <2>1, MakesHandle DEF RunPosted
<1>2. CASE WriteEvent
  BY <1>2, <1>t, MakesHandle DEF WriteEvent, Running
<1>3. CASE EndContent(r)
  <2>1. UNCHANGED <<site, handler, pos>> /\ upstream' = upstream \ {r} /\ Made(r) /\ call.r = r
    BY <1>3 DEF EndContent, body
  <2> QED BY <2>1, MakesLasts
<1>4. CASE Idle \/ FinalizeDone(r) \/ FinalizeActive(r) \/ FinalizeConnection \/ Close
  <2>1. UNCHANGED <<site, handler, pos, upstream>> /\ call.fn # "content"
    BY <1>4 DEF Idle, FinalizeDone, FinalizeActive, FinalizeConnection, Close, Finalizes, body, Running
  <2> QED BY <1>s, <2>1
<1>5. CASE Written(r) \/ FinalizeError(r) \/ FinalizeLater(r) \/ FinalizeEarly(r)
  <2>1. /\ UNCHANGED <<site, pos, upstream>> /\ call.fn \in Late /\ call.fn # "content" /\ call.r = r
        /\ \A q \in Requests : q # r => handler'[q] = handler[q]
    BY <1>5, <1>t DEF Written, FinalizeError, FinalizeLater, FinalizeEarly, Finalizes, body, Running, Late
  <2>2. handler[r] # "handler"
    BY <2>1 DEF Apart
  <2> QED BY <1>s, <2>1, <2>2
<1>6. CASE FinalizeMain
  <2>1. /\ UNCHANGED <<site, pos, upstream>> /\ call.fn \in Late /\ call.fn # "content" /\ call.r = Main
        /\ \A q \in Requests : q # Main => handler'[q] = handler[q]
    BY <1>6, <1>t DEF FinalizeMain, Finalizes, Running, Late
  <2>2. handler[Main] # "handler"
    BY <2>1 DEF Apart
  <2> QED BY <1>s, <2>1, <2>2
<1>7. CASE Terminate
  BY <1>7 DEF Terminate
<1>8. CASE Events
  <2>1. UNCHANGED <<site, handler, pos>> /\ call.fn # "content"
    BY <1>8 DEF Events, UpstreamEvent, PipeAborts, AioDone, Writable, SendTimeout, Lingered,
       Waits, body, Running
  <2>2. upstream' = upstream \/ \E q : call' = Call("finalize", q, "error")
    BY <1>8 DEF Events, UpstreamEvent, PipeAborts, AioDone, Writable, SendTimeout, Lingered
  <2>3. upstream' = upstream
    BY <2>2 DEF Doomed, Running, Call
  <2> QED BY <1>s, <2>1, <2>3
<1>9. CASE ClientLeaves
  <2>1. UNCHANGED <<site, handler, pos>> /\ call.fn # "content" /\ call' = Noticed(active)
        /\ upstream' = IF reader[active] = "broken" THEN upstream \ {active} ELSE upstream
    BY <1>9 DEF ClientLeaves, Waits, Running
  <2>2. reader[active] # "broken"
    <3> SUFFICES ASSUME reader[active] = "broken" PROVE FALSE
      OBVIOUS
    <3>1. call'.fn = "finalize" /\ call'.rc \in {"closed", "done"}
      BY <2>1 DEF Noticed, Call
    <3> QED BY <3>1 DEF Doomed, Running
  <2> QED BY <1>s, <2>1, <2>2
<1> QED BY <1>1, <1>2, <1>3, <1>4, <1>5, <1>6, <1>7, <1>8, <1>9

(* Where no list loses a part and who makes something goes on, all is        *)
(* accounted for.                                                            *)
LEMMA AccountedStays ==
    ASSUME Base, Accounted, Lasting, UNCHANGED <<site, out>>, Live \subseteq Live',
           \A q \in Requests : pos'[q] = pos[q] \/ (pos[q] = NotStarted /\ pos'[q] = 0),
           \A q \in Requests : \A y \in AnyPart :
              y \in Range(postponed[q]) => y \in Range(postponed'[q])
    PROVE  Accounted'
<1>p. Whole' = Whole /\ \A q, y : Toward(q, y)' = Toward(q, y)
  BY PageStays
<1>s. site \in Sites
  BY DEF Base, TypeOK
<1> SUFFICES ASSUME NEW y \in Whole, y \notin Range(out)
             PROVE  \/ y \in Range(postponed'[y[1]])
                    \/ \E q \in Live' : Makes(q)' /\ \E j \in Toward(q, y) : j > pos'[q]
  BY <1>p DEF Accounted
<1>y. y \in AnyPart /\ y[1] \in Requests
  BY <1>s, WholeIs
<1>1. CASE y \in Range(postponed[y[1]])
  BY <1>1, <1>y
<1>2. ASSUME NEW q \in Live, Makes(q), NEW j \in Toward(q, y), j > pos[q]
      PROVE  Makes(q)' /\ j > pos'[q]
  <2>1. q \in Requests /\ j \in DOMAIN Script(q) /\ j \in 1..Len(Script(q)) /\ Len(Script(q)) \in Nat
    <3>1. q \in Requests /\ j \in DOMAIN Script(q)
      BY LiveIs DEF Toward
    <3> QED BY <1>s, <3>1, ScriptItem
  <2>2. pos[q] \in Int
    BY <2>1, Typed
  <2>3. ~Made(q)
    BY <1>2, <2>1, <2>2 DEF Made
  <2>4. j > pos'[q]
    BY <1>2, <2>1, <2>2
  <2> QED BY <1>2, <2>1, <2>3, <2>4 DEF Lasting
<1> QED BY <1>1, <1>2 DEF Accounted

(* Everything but writing and new subrequests. *)
LEMMA AccountedSteps ==
    ASSUME Base, Apart, Accounted, ~Doomed', ~torn', Live' = Live, NEW r \in Requests,
           \/ RunPosted \/ WriteEvent \/ Idle \/ EndContent(r) \/ Written(r)
           \/ FinalizeDone(r) \/ FinalizeError(r) \/ FinalizeLater(r) \/ FinalizeEarly(r)
           \/ FinalizeActive(r) \/ FinalizeMain \/ Terminate \/ FinalizeConnection \/ Close
           \/ Events \/ ClientLeaves
    PROVE  Accounted'
<1>1. Lasting
  BY MakesSteps
<1>2. CASE ~FinalizeActive(r)
  <2>1. Quiet
    BY <1>2, QuietSteps
  <2> QED BY <1>1, <2>1, AccountedStays DEF Quiet
<1>3. CASE FinalizeActive(r)
  <2>1. /\ UNCHANGED <<site, out, pos>> /\ r \in Subs
        /\ postponed' = [postponed EXCEPT ![Parent(r)] = DropFirst(@, r)]
    BY <1>3 DEF FinalizeActive
  <2>2. ASSUME NEW q \in Requests, NEW y \in AnyPart, y \in Range(postponed[q])
        PROVE  y \in Range(postponed'[q])
    <3>t. postponed \in [Requests -> Seq(Items)]
      BY Typed
    <3>1. CASE q # Parent(r)
      BY <2>1, <2>2, <3>1, <3>t
    <3>2. CASE q = Parent(r)
      <4>L. PICK L \in Seq(Items) : L = postponed[q] /\ postponed'[q] = DropFirst(L, r)
        BY <2>1, <3>2, <3>t
      <4>1. PICK k \in DOMAIN L : L[k] = y
        BY <2>2, <4>L DEF Range
      <4>2. CASE DropFirst(L, r) = L
        BY <2>2, <4>L, <4>2
      <4>3. CASE /\ L # <<>> /\ L[1] = r /\ DropFirst(L, r) = Tail(L)
                 /\ Len(L) \in Nat \ {0} /\ DOMAIN L = 1..Len(L)
                 /\ Tail(L) \in Seq(Items) /\ Len(Tail(L)) = Len(L) - 1
                 /\ \A i \in 1..Len(L) - 1 : Tail(L)[i] = L[i + 1]
        <5>1. k # 1
          BY <2>1, <4>1, <4>3, PartsAreNoSubs
        <5>2. k - 1 \in 1..Len(L) - 1 /\ (k - 1) + 1 = k
          BY <4>3, <5>1
        <5>3. Tail(L)[k - 1] = y /\ k - 1 \in DOMAIN Tail(L)
          BY <4>1, <4>3, <5>2
        <5> QED BY <4>3, <4>L, <5>3 DEF Range
      <4> QED BY <4>2, <4>3, DropIs
    <3> QED BY <3>1, <3>2
  <2> QED BY <1>1, <2>1, <2>2, AccountedStays
<1> QED BY <1>2, <1>3

(* A write loses no part: what leaves the list goes out. *)
LEMMA NothingLost ==
    ASSUME Base, NEW r \in Requests, NEW L \in Seq(Items), NEW next, GoesOn(r, L, next)
    PROVE  /\ \A y \in Range(L) \cap AnyPart : y \in Range(postponed'[r]) \/ y \in Range(out')
           /\ \A y \in Range(out) : y \in Range(out')
<1>t. /\ Len(L) \in Nat /\ DOMAIN L = 1..Len(L) /\ out \in Seq(AnyPart) /\ out \in Seq(Items)
      /\ postponed \in [Requests -> Seq(Items)]
  BY Typed, PartsAreNoSubs DEF Base, TypeOK, AnyPart
<1>1. CASE Keeps(r, L)
  <2>1. postponed'[r] = L /\ out' = out
    BY <1>1, <1>t DEF Keeps
  <2> QED BY <2>1
<1>2. CASE SendsAll(r, L)
  <2>1. out' = out \o L
    BY <1>2 DEF SendsAll
  <2> QED BY <1>t, <2>1, RangeConcat
<1>3. ASSUME NEW f \in DOMAIN L, SendsUpTo(r, L, f)
      PROVE  /\ \A y \in Range(L) \cap AnyPart : y \in Range(postponed'[r]) \/ y \in Range(out')
             /\ \A y \in Range(out) : y \in Range(out')
  <2> DEFINE rest == SubSeq(L, f + 1, Len(L))
             data == SubSeq(L, 1, f - 1)
  <2>1. /\ postponed' = [postponed EXCEPT ![r] = rest] /\ out' = out \o data /\ L[f] \in Subs
    BY <1>3 DEF SendsUpTo
  <2>f. f \in 1..Len(L)
    BY <1>t
  <2>r. /\ DOMAIN rest = 1..Len(L) - f
        /\ \A i \in 1..Len(L) - f : rest[i] = L[f + i]
    BY <1>t, SubSeqIs
  <2>d. data \in Seq(Items) /\ DOMAIN data = 1..f - 1 /\ \A i \in 1..f - 1 : data[i] = L[i]
    <3>1. data \in Seq(Items) /\ Len(data) = f - 1 /\ \A i \in 1..f - 1 : data[i] = L[i]
      BY <1>t, <2>f, SubSeqProperties
    <3> HIDE DEF data
    <3> QED BY <1>t, <2>f, <3>1
  <2>2. postponed'[r] = rest
    BY <1>t, <2>1
  <2> HIDE DEF data, rest
  <2>3. Range(out') = Range(out) \cup Range(data)
    BY <1>t, <2>1, <2>d, RangeConcat
  <2>4. ASSUME NEW y \in Range(L) \cap AnyPart PROVE y \in Range(rest) \/ y \in Range(data)
    <3>1. PICK k \in DOMAIN L : L[k] = y
      BY DEF Range
    <3>2. k # f
      BY <2>1, <3>1, PartsAreNoSubs
    <3>3. CASE k < f
      <4>1. k \in 1..f - 1
        BY <1>t, <2>f, <3>3
      <4> QED BY <2>d, <3>1, <4>1 DEF Range
    <3>4. CASE k > f
      <4>1. k - f \in 1..Len(L) - f /\ f + (k - f) = k
        BY <1>t, <2>f, <3>4
      <4> QED BY <2>r, <3>1, <4>1 DEF Range
    <3> QED BY <1>t, <2>f, <3>2, <3>3, <3>4
  <2> QED BY <2>2, <2>3, <2>4
<1> QED BY <1>1, <1>2, <1>3 DEF GoesOn

(* Who writes goes on until its response is made. *)
LEMMA WriterGoesOn ==
    ASSUME Base, Apart, Calls, NEW r \in Requests, NEW in \in Seq(AnyPart), NEW next, NEW n \in Int,
           Writes(r, in, next, n), GoesOn(r, postponed[r] \o in, next),
           Emits(r, in, next, n) \/ Drains(r, in, next, n), Makes(r), n # Len(Script(r))
    PROVE  Makes(r)'
<1>t. /\ pos[r] \in Int /\ pos \in [Requests -> Int] /\ Len(Script(r)) \in Nat
  BY Typed
<1>w. /\ pos'[r] = n /\ Script(r)' = Script(r) /\ UNCHANGED <<site, handler, upstream>> /\ call' = next
  BY <1>t DEF Writes, GoesOn, Script
<1>1. CASE Emits(r, in, next, n)
  <2>1. \/ next = Call("content", r, "ok")
        \/ site.kind[r] = "proxy"
    BY <1>1 DEF Emits, Proceed
  <2>2. CASE next = Call("content", r, "ok")
    BY <1>w, <2>2 DEF Makes, Running, Call
  <2>3. CASE site.kind[r] = "proxy"
    <3>1. r \in upstream
      BY <1>1, <2>3 DEF Emits, Calls, Running
    <3> QED BY <1>w, <3>1 DEF Makes
  <2> QED BY <2>1, <2>2, <2>3
<1>2. CASE Drains(r, in, next, n)
  <2>1. call.fn = "flush" /\ call.r = r /\ handler[r] = "writer"
    BY <1>2 DEF Drains, Calls, Running
  <2>2. Buffered(r)
    BY <2>1 DEF Makes, Running, Apart, Late
  <2>3. n = pos[r] + 1 /\ pos[r] >= 0 /\ site.kind[r] = "file"
    BY <1>2, <2>2 DEF Drains, Buffered
  <2> QED BY <1>t, <1>w, <2>3 DEF Makes, Buffered, Made
<1> QED BY <1>1, <1>2

(* A write sends a part, lists it, or leaves it to be made. *)
LEMMA AccountedWrites ==
    ASSUME Base, Base', Apart, Calls, Accounted, ~Doomed', Live' = Live,
           NEW r \in Requests, EmitData(r) \/ Flush(r)
    PROVE  Accounted'
<1>1. PICK in \in Seq(AnyPart), n \in Int,
           next \in {Call("content", r, "ok"), Call("written", r, "ok"), Return} :
              /\ Writes(r, in, next, n)
              /\ Emits(r, in, next, n) \/ Drains(r, in, next, n)
  BY WriteSteps
<1>L. PICK L : L = postponed[r] \o in
  OBVIOUS
<1>t. /\ pos \in [Requests -> Int] /\ postponed \in [Requests -> Seq(Items)] /\ site \in Sites
      /\ in \in Seq(Items) /\ L \in Seq(Items) /\ Range(L) = Range(postponed[r]) \cup Range(in)
  <2>1. in \in Seq(Items)
    BY PartsAreNoSubs
  <2>2. /\ pos \in [Requests -> Int] /\ postponed \in [Requests -> Seq(Items)]
        /\ postponed[r] \in Seq(Items) /\ site \in Sites
    BY Typed DEF Base, TypeOK
  <2>3. L \in Seq(Items)
    BY <1>L, <2>1, <2>2
  <2>4. Range(L) = Range(postponed[r]) \cup Range(in)
    BY <1>L, <2>1, <2>2, RangeConcat
  <2> QED BY <2>1, <2>2, <2>3, <2>4
<1>w. /\ pos' = [pos EXCEPT ![r] = n] /\ UNCHANGED <<site, handler>>
      /\ GoesOn(r, L, next)
  <2>1. pos' = [pos EXCEPT ![r] = n] /\ UNCHANGED <<site, handler>>
    BY <1>1 DEF Writes
  <2>2. GoesOn(r, L, next) \/ Breaks(r, L)
    BY <1>1, <1>L DEF Writes
  <2>3. ~Breaks(r, L)
    BY DEF Breaks, Doomed, Running, Call
  <2> QED BY <2>1, <2>2, <2>3
<1>u. /\ upstream' = upstream /\ call' = next
      /\ \A q \in Requests : q # r => postponed'[q] = postponed[q]
  <2>1. upstream' = upstream /\ call' = next
    BY <1>w DEF GoesOn
  <2>2. \A q \in Requests : q # r => postponed'[q] = postponed[q]
    BY <1>t, <1>w, WritesIs DEF Base
  <2> QED BY <2>1, <2>2
<1>l. /\ \A y \in Range(L) \cap AnyPart : y \in Range(postponed'[r]) \/ y \in Range(out')
      /\ \A y \in Range(out) : y \in Range(out')
  BY <1>t, <1>w, NothingLost
<1>p. Whole' = Whole /\ \A q, y : Toward(q, y)' = Toward(q, y)
  BY <1>w, PageStays
<1>m. \A q \in Requests : q # r => pos'[q] = pos[q] /\ (Makes(q) => Makes(q)')
  <2> SUFFICES ASSUME NEW q \in Requests, q # r PROVE pos'[q] = pos[q] /\ (Makes(q) => Makes(q)')
    OBVIOUS
  <2>1. pos'[q] = pos[q]
    BY <1>t, <1>w
  <2>2. Buffered(q) => Buffered(q)'
    BY <1>w, <2>1 DEF Buffered, Made, Script
  <2>3. ~(Running("content") /\ call.r = q)
    BY <1>1 DEF Emits, Drains
  <2> QED BY <1>u, <1>w, <2>1, <2>2, <2>3 DEF Makes
<1> SUFFICES ASSUME NEW y \in Whole, y \notin Range(out')
             PROVE  \/ y \in Range(postponed'[y[1]])
                    \/ \E q \in Live : Makes(q)' /\ \E j \in Toward(q, y) : j > pos'[q]
  BY <1>p DEF Accounted
<1>y. y \in AnyPart /\ y[1] \in Requests /\ y \notin Range(out)
  BY <1>l, <1>t, WholeIs
<1>2. CASE y \in Range(postponed[y[1]])
  <2>1. CASE y[1] # r
    BY <1>2, <1>u, <1>y, <2>1
  <2>2. CASE y[1] = r
    BY <1>2, <1>l, <1>t, <1>y, <2>2
  <2> QED BY <2>1, <2>2
<1>3. ASSUME NEW q \in Live, Makes(q), NEW j \in Toward(q, y), j > pos[q]
      PROVE  \/ y \in Range(postponed'[y[1]])
             \/ Makes(q)' /\ j > pos'[q]
  <2>1. CASE q # r
    BY <1>3, <1>m, <2>1, LiveIs
  <2>2. CASE q = r
    <3>j. /\ j \in DOMAIN Script(r) /\ j \in Int /\ j <= Len(Script(r)) /\ Len(Script(r)) \in Nat
          /\ (y = <<r, j>> \/ Script(r)[j] \in Above(y[1]))
      <4>1. j \in DOMAIN Script(r) /\ (y = <<r, j>> \/ Script(r)[j] \in Above(y[1]))
        BY <2>2 DEF Toward
      <4> QED BY <1>t, <4>1, ScriptItem
    <3>p. pos'[r] = n /\ pos[r] \in Int
      BY <1>t, <1>w
    <3>1. CASE j > n
      <4>1. n # Len(Script(r))
        BY <3>1, <3>j
      <4>2. Makes(r)'
        BY <1>1, <1>3, <1>L, <1>w, <2>2, <4>1, WriterGoesOn
      <4> QED BY <2>2, <3>1, <3>p, <4>2
    <3>2. CASE j <= n
      <4>1. n = pos[r] + 1 /\ in = <<<<r, n>>>>
        BY <1>1, <1>3, <2>2, <3>2, <3>j, <3>p DEF Emits, Drains
      <4>2. j = n
        BY <1>3, <2>2, <3>2, <3>j, <3>p, <4>1
      <4>3. Script(r)[j] = Data
        <5>1. CASE Emits(r, in, next, n)
          BY <4>2, <5>1 DEF Emits
        <5>2. CASE Drains(r, in, next, n)
          <6>1. Buffered(r)
            BY <4>1, <5>2, <3>p DEF Drains
          <6>2. site.kind[r] = "file"
            BY <6>1 DEF Buffered
          <6>3. Script(r) \in Seq({Data})
            BY <1>t, <6>2, SiteType
          <6> QED BY <3>j, <6>3
        <5> QED BY <1>1, <5>1, <5>2
      <4>4. y = <<r, n>>
        <5>1. Data \notin Above(y[1])
          BY <1>t, <1>y, AboveIs, Names
        <5> QED BY <3>j, <4>2, <4>3, <5>1
      <4>5. y \in Range(in)
        BY <4>1, <4>4 DEF Range
      <4> QED BY <1>l, <1>t, <1>y, <4>4, <4>5
    <3> QED BY <3>1, <3>2, <3>j
  <2> QED BY <2>1, <2>2
<1> QED BY <1>2, <1>3, <1>y DEF Accounted

(* A subrequest is to make the parts that its parent has counted as made. *)
LEMMA AccountedSubrequest ==
    ASSUME Base, Base', Calls, Accounted, NEW r \in Requests, Subrequest(r)
    PROVE  Accounted'
<1>m. PICK n : n = pos[r] + 1
  OBVIOUS
<1>s. PICK s : s = Script(r)[n]
  OBVIOUS
<1>a. /\ pos' = [pos EXCEPT ![r] = @ + 1]
      /\ postponed' = [postponed EXCEPT ![r] = Append(@, s)]
      /\ UNCHANGED <<site, handler, upstream, out>>
      /\ Running("content") /\ call.r = r /\ ~Made(r) /\ s \in Subs
      /\ call' \in Proceed(r)
  BY <1>m, <1>s DEF Subrequest
<1>t. /\ site \in Sites /\ pos[r] \in Int /\ pos[r] >= 0
      /\ pos \in [Requests -> Int] /\ postponed \in [Requests -> Seq(Items)]
      /\ s \in Requests /\ s \in Items
  BY <1>a, Typed, Names DEF Base, TypeOK, Started, Items
<1>n. n \in Int /\ pos'[r] = n /\ \A q \in Requests : q # r => pos'[q] = pos[q]
  BY <1>a, <1>m, <1>t
<1>l. s \notin Live /\ Live' = Live \cup {s} /\ Parent(s) = r /\ handler[s] = "handler" /\ s # r
  <2>1. s \notin Live /\ Parent(s) = r /\ handler[s] = "handler"
    BY <1>m, <1>s, NewIs
  <2>2. Live' = Live \cup {s}
    BY <1>m, <1>s, BaseSubrequest
  <2>3. r \in Live
    BY <1>a, BaseTyped DEF Running, Fn
  <2> QED BY <2>1, <2>2, <2>3
<1>p. Whole' = Whole /\ \A q, y : Toward(q, y)' = Toward(q, y)
  BY <1>a, PageStays
<1>q. \A q \in Requests : \A y : y \in Range(postponed[q]) => y \in Range(postponed'[q])
  <2>1. Range(Append(postponed[r], s)) = Range(postponed[r]) \cup {s}
    BY <1>t, RangeAppend
  <2>2. /\ postponed'[r] = Append(postponed[r], s)
        /\ \A q \in Requests : q # r => postponed'[q] = postponed[q]
    BY <1>a, <1>t
  <2> QED BY <2>1, <2>2
<1>k. \A q \in Requests : Makes(q) => Makes(q)'
  <2> SUFFICES ASSUME NEW q \in Requests, Makes(q) PROVE Makes(q)'
    OBVIOUS
  <2>1. CASE q = r
    <3>1. CASE call' = Call("content", r, "ok")
      BY <2>1, <3>1 DEF Makes, Running, Call
    <3>2. CASE site.kind[r] = "proxy"
      <4>1. r \in upstream
        BY <1>a, <3>2 DEF Calls, Running
      <4> QED BY <1>a, <2>1, <4>1 DEF Makes
    <3> QED BY <1>a, <3>1, <3>2 DEF Proceed
  <2>2. CASE q # r
    <3>1. Buffered(q) => Buffered(q)'
      BY <1>a, <1>n, <2>2 DEF Buffered, Made, Script
    <3> QED BY <1>a, <2>2, <3>1 DEF Makes
  <2> QED BY <2>1, <2>2
<1> SUFFICES ASSUME NEW y \in Whole, y \notin Range(out)
             PROVE  \/ y \in Range(postponed'[y[1]])
                    \/ \E q \in Live' : Makes(q)' /\ \E j \in Toward(q, y) : j > pos'[q]
  BY <1>a, <1>p DEF Accounted
<1>y. y[1] \in Requests /\ y[2] \in DOMAIN Script(y[1]) /\ y = <<y[1], y[2]>> /\ y \in AnyPart
  BY <1>t, WholeIs
<1>1. CASE y \in Range(postponed[y[1]])
  BY <1>1, <1>q, <1>y
<1>2. ASSUME NEW q \in Live, Makes(q), NEW j \in Toward(q, y), j > pos[q]
      PROVE  \E p \in Live' : Makes(p)' /\ \E i \in Toward(p, y) : i > pos'[p]
  <2>0. q \in Requests /\ q \in Live' /\ Makes(q)'
    BY <1>2, <1>k, <1>l, LiveIs
  <2>1. CASE j > pos'[q]
    BY <2>0, <2>1
  <2>2. CASE ~(j > pos'[q])
    <3>1. q = r
      BY <1>2, <1>n, <2>0, <2>2
    <3>2. j \in DOMAIN Script(r) /\ (y = <<r, j>> \/ Script(r)[j] \in Above(y[1]))
      BY <3>1 DEF Toward
    <3>3. j = n
      <4>1. j \in Int
        BY <1>t, <3>2, ScriptItem
      <4> QED BY <1>2, <1>m, <1>n, <1>t, <2>2, <3>1, <4>1
    <3>4. s \in Above(y[1])
      <4>1. CASE y = <<r, j>>
        <5>1. Script(y[1])[y[2]] = Data /\ y[1] = r /\ y[2] = j
          BY <4>1 DEF Whole
        <5> QED BY <1>a, <1>s, <3>3, <5>1, PartsAreNoSubs
      <4> QED BY <1>s, <3>2, <3>3, <4>1
    <3>5. pos[s] = NotStarted /\ Makes(s)' /\ s \in Live' /\ pos'[s] = NotStarted
      BY <1>a, <1>l, <1>n, <1>t DEF Base, Started, Makes
    <3>6. PICK i \in DOMAIN Script(s) : i \in Toward(s, y)
      <4>1. CASE y[1] = s
        BY <1>y, <4>1 DEF Toward
      <4>2. CASE y[1] # s
        <5>1. PICK i \in DOMAIN Script(s) : Script(s)[i] \in Above(y[1])
          BY <1>t, <1>y, <3>4, <4>2, Leads
        <5> QED BY <5>1 DEF Toward
      <4> QED BY <4>1, <4>2
    <3>7. i > pos'[s]
      <4>1. i \in Nat \ {0}
        BY <1>t, ScriptItem
      <4> QED BY <3>5, <4>1 DEF NotStarted
    <3> QED BY <3>5, <3>6, <3>7
  <2> QED BY <2>1, <2>2
<1> QED BY <1>1, <1>2 DEF Accounted

(* At first the main request has all to make. *)
LEMMA AccountedInit == ASSUME Init PROVE Accounted
<1>i. /\ site \in Sites /\ Main \in Live /\ Main \in Requests
      /\ handler[Main] = "handler" /\ pos[Main] = NotStarted
  BY Names, LiveIs DEF Init
<1> SUFFICES ASSUME NEW y \in Whole
             PROVE  \E j \in Toward(Main, y) : j > pos[Main]
  BY <1>i DEF Accounted, Makes
<1>1. y[1] \in Requests /\ y[2] \in DOMAIN Script(y[1]) /\ y = <<y[1], y[2]>> /\ Main \in Above(y[1])
  BY <1>i, WholeIs
<1>2. PICK j \in DOMAIN Script(Main) : j \in Toward(Main, y)
  <2>1. CASE y[1] = Main
    BY <1>1, <2>1 DEF Toward
  <2>2. CASE y[1] # Main
    <3>1. PICK j \in DOMAIN Script(Main) : Script(Main)[j] \in Above(y[1])
      BY <1>1, <1>i, <2>2, Leads
    <3> QED BY <3>1 DEF Toward
  <2> QED BY <2>1, <2>2
<1>3. j \in Nat \ {0}
  BY <1>i, ScriptItem
<1> QED BY <1>i, <1>2, <1>3 DEF NotStarted

(* Until the request is to be terminated all that was not sent is accounted for. *)
Kept == (~torn /\ ~freed /\ ~Doomed) => Accounted

(* Every step keeps the account. *)
LEMMA KeptNext ==
    ASSUME IInv, Apart, Kept, [Next]_vars
    PROVE  Kept'
<1>b. Base /\ Base'
  BY BaseNext DEF IInv
<1>0. CASE UNCHANGED vars
  <2>1. Live' = Live /\ Doomed' = Doomed
    BY <1>0 DEF vars, Live, Doomed, Running
  <2>2. Lasting
    BY <1>0 DEF vars, Lasting, Makes, Running, Buffered, Made, Script
  <2>3. Accounted => Accounted'
    BY <1>0, <1>b, <2>1, <2>2, AccountedStays DEF vars
  <2> QED BY <1>0, <2>1, <2>3 DEF vars, Kept
<1> SUFFICES ASSUME Next, ~torn', ~freed', ~Doomed' PROVE Accounted'
  BY <1>0 DEF Kept
<1>1. ~torn /\ ~freed
  BY Marks, FreedNext DEF IInv
<1>2. Calls /\ Accounted
  <2>1. ~Doomed
    BY <1>1, DoomedStays
  <2> QED BY <1>1, <2>1 DEF Kept, IInv, Untorn
<1>3. ASSUME NEW r \in Requests, EmitData(r) \/ Flush(r) PROVE Accounted'
  <2>1. Live' = Live
    BY <1>3, <1>b, BaseEmit
  <2> QED BY <1>b, <1>2, <1>3, <2>1, AccountedWrites
<1>4. ASSUME NEW r \in Requests, Subrequest(r) PROVE Accounted'
  BY <1>b, <1>2, <1>4, AccountedSubrequest
<1>5. ASSUME NEW r \in Requests,
             Written(r) \/ FinalizeError(r) \/ FinalizeLater(r) \/ FinalizeEarly(r) \/ FinalizeActive(r)
      PROVE  Accounted'
  <2>1. Live' = Live
    BY <1>5, <1>b, BaseFinalizes
  <2> QED BY <1>b, <1>2, <1>5, <2>1, AccountedSteps
<1>6. ASSUME NEW r \in Requests, EndContent(r) \/ FinalizeDone(r) PROVE Accounted'
  <2>1. Live' = Live
    BY <1>6, <1>b, BaseSimple DEF Simple
  <2> QED BY <1>b, <1>2, <1>6, <2>1, AccountedSteps
<1>7. CASE Idle \/ Close \/ Events
  <2>1. Live' = Live
    BY <1>7, <1>b, BaseSimple DEF Simple
  <2> QED BY <1>b, <1>2, <1>7, <2>1, Names, AccountedSteps
<1>8. CASE FinalizeMain \/ Terminate \/ FinalizeConnection \/ RunPosted \/ WriteEvent \/ ClientLeaves
  <2>1. Live' = Live
    BY <1>8, <1>b, BaseOther
  <2> QED BY <1>b, <1>2, <1>8, <2>1, Names, AccountedSteps
<1> QED BY <1>3, <1>4, <1>5, <1>6, <1>7, <1>8 DEF Next, Work, Content, Finalize

(* Nothing that was passed over is missing. *)
NoGap == \A x \in Range(out), y \in Whole \ Range(out) : Before(x, y)

(* What is accounted for comes after what was sent. *)
LEMMA NoGapIs ==
    ASSUME Base, Ordering, Accounted
    PROVE  NoGap
<1> SUFFICES ASSUME NEW x \in Range(out), NEW y \in Whole, y \notin Range(out)
             PROVE  Before(x, y)
  BY DEF NoGap
<1>s. site \in Sites
  BY DEF Base, TypeOK
<1>y. /\ y[1] \in Requests /\ y[2] \in DOMAIN Script(y[1]) /\ y = <<y[1], y[2]>>
      /\ Script(y[1])[y[2]] = Data /\ ItemAt(y[1], y[2]) = y
  BY <1>s, WholeIs
<1>1. CASE y \in Range(postponed[y[1]])
  <2>1. y[2] \in InList(y[1])
    BY <1>1, <1>y DEF InList
  <2>2. y[1] \in Live
    BY <1>y, <2>1, InListIs DEF Ordering
  <2>3. Script(y[1])[y[2]] \notin Above(active)
    BY <1>s, <1>y, AboveIs, BaseTyped, LiveIs, Names
  <2>4. y[2] \in Ahead(y[1])
    BY <1>y, <2>1, <2>3 DEF Ahead
  <2>5. Before(x, <<y[1], y[2]>>)
    BY <2>2, <2>4 DEF Ordering, Behind
  <2> QED BY <1>y, <2>5
<1>2. ASSUME NEW q \in Live, Makes(q), NEW j \in Toward(q, y), j > pos[q] PROVE Before(x, y)
  <2>1. q \in Requests /\ j \in DOMAIN Script(q) /\ (y = <<q, j>> \/ Script(q)[j] \in Above(y[1]))
    BY LiveIs DEF Toward
  <2>2. j \in Ahead(q)
    BY <1>2, <2>1 DEF Ahead
  <2>3. Before(x, <<q, j>>)
    BY <2>2 DEF Ordering, Behind
  <2> QED BY <1>s, <1>y, <2>1, <2>3, BeforeItem
<1> QED BY <1>1, <1>2 DEF Accounted

(* Which steps send, and which end a request. *)
LEMMA OutIs ==
    ASSUME Next
    PROVE  /\ out' = out \/ \E r \in Requests : EmitData(r) \/ Flush(r)
           /\ done' = done \/ FinalizeMain \/ \E r \in Requests : FinalizeActive(r)
<1>1. CASE \E r \in Requests : EmitData(r) \/ Flush(r)
  BY <1>1 DEF EmitData, Flush
<1>2. CASE \E r \in Requests : FinalizeActive(r)
  BY <1>2 DEF FinalizeActive
<1>3. CASE FinalizeMain
  BY <1>3 DEF FinalizeMain
<1>4. CASE /\ ~\E r \in Requests : EmitData(r) \/ Flush(r)
           /\ ~FinalizeMain /\ ~\E r \in Requests : FinalizeActive(r)
  <2>1. UNCHANGED <<out, done>>
    BY <1>4 DEF Next, Work, Events, Content, Finalize, RunPosted, WriteEvent, Handle, Starts,
       Downstream, Flushes, Finalizer, TerminateHandler, Ignores, PhasesAgain, Idle, Subrequest,
       EndContent, Written, FinalizeDone, FinalizeError, FinalizeLater, FinalizeEarly, Terminate,
       FinalizeConnection, Close, UpstreamEvent, PipeAborts, AioDone, Writable, SendTimeout,
       Lingered, ClientLeaves, body
  <2> QED BY <2>1
<1> QED BY <1>1, <1>2, <1>3, <1>4

(* What was sent stays sent, and nothing is sent for a request that was or   *)
(* is to be terminated.                                                      *)
LEMMA SendsEnd ==
    ASSUME IInv, Next, ~astray'
    PROVE  /\ Range(out) \subseteq Range(out')
           /\ (torn' \/ freed' \/ Doomed') => out' = out
<1>b. Base /\ Sane /\ ~astray
  BY Marks DEF IInv
<1> SUFFICES ASSUME NEW r \in Requests, EmitData(r) \/ Flush(r)
             PROVE  /\ Range(out) \subseteq Range(out')
                    /\ (torn' \/ freed' \/ Doomed') => out' = out
  BY OutIs
<1>1. PICK in \in Seq(AnyPart), n \in Int,
           next \in {Call("content", r, "ok"), Call("written", r, "ok"), Return} :
              /\ Writes(r, in, next, n)
              /\ Emits(r, in, next, n) \/ Drains(r, in, next, n)
  BY <1>b, WriteSteps
<1>L. PICK L : L = postponed[r] \o in
  OBVIOUS
<1>w. UNCHANGED <<torn, freed>> /\ (GoesOn(r, L, next) \/ Breaks(r, L))
  BY <1>1, <1>L DEF Writes
<1>c. call.fn \in {"content", "flush"} /\ call.r = r
  BY <1>1 DEF Emits, Drains, Running
<1>2. CASE Breaks(r, L)
  BY <1>2 DEF Breaks
<1>3. CASE GoesOn(r, L, next)
  <2>1. L \in Seq(Items)
    <3>1. in \in Seq(Items)
      BY PartsAreNoSubs
    <3>2. postponed[r] \in Seq(Items)
      BY <1>b, Typed
    <3> QED BY <1>L, <3>1, <3>2
  <2>2. Range(out) \subseteq Range(out')
    BY <1>3, <1>b, <2>1, NothingLost
  <2>3. ~Doomed'
    BY <1>3 DEF GoesOn, Doomed, Running, Call, Return
  <2>4. CASE freed
    BY <1>b, <1>c, <2>4 DEF Sane
  <2>5. CASE torn /\ ~freed
    <3>1. Torn
      BY <1>b, <2>5 DEF IInv
    <3>2. Waiting
      BY <1>c, <3>1, ReturnIs DEF Torn, Reaped, Call
    <3>3. r # active
      BY <1>c, <3>2 DEF Waiting
    <3> QED BY <1>3, <2>2, <3>3 DEF GoesOn, Keeps
  <2> QED BY <1>w, <2>2, <2>3, <2>4, <2>5
<1> QED BY <1>w, <1>2, <1>3

(* When the main request ends everything was sent. *)
LEMMA MainEnds ==
    ASSUME IInv, Apart, Ordering, Kept, Next, ~astray', Main \notin done, Main \in done'
    PROVE  Whole \subseteq Range(out)
<1>b. Base /\ Base' /\ Sane /\ ~astray
  BY Marks, BaseNext DEF IInv
<1>1. FinalizeMain
  <2>1. ASSUME NEW r \in Requests, FinalizeActive(r) PROVE FALSE
    <3>1. done' = done \cup {r} /\ r \in Subs
      BY <2>1 DEF FinalizeActive
    <3> QED BY <3>1, Names
  <2> QED BY <2>1, OutIs
<1>2. /\ call.fn = "finalize" /\ call.r = Main /\ call.rc = "ok"
      /\ call' = Call("connection", Main, "ok")
  BY <1>1 DEF FinalizeMain, Finalizes, Running
<1>3. ~freed
  BY <1>2, <1>b DEF Sane
<1>4. ~torn
  <2> SUFFICES ASSUME torn PROVE FALSE
    OBVIOUS
  <2>1. Torn
    BY <1>3, <1>b DEF IInv
  <2>2. Waiting
    BY <1>2, <2>1, ReturnIs DEF Torn, Reaped, Call
  <2>3. Waiting'
    BY <1>1, <1>b, <2>2, Names, WaitingFinalize
  <2>4. call'.fn = "connection"
    BY <1>2 DEF Call
  <2> QED BY <2>3, <2>4 DEF Waiting
<1>5. Untorn /\ Accounted
  BY <1>2, <1>3, <1>4 DEF IInv, Kept, Doomed, Running
<1>6. /\ Unfinished = {} /\ postponed[Main] = <<>> /\ ~Buffered(Main)
  BY <1>1, <1>5, <1>b, MainIsLast DEF Untorn
<1>7. ASSUME NEW q \in Live PROVE postponed[q] = <<>> /\ ~Makes(q)
  <2>1. CASE q = Main
    <3>1. Main \notin upstream /\ handler[Main] # "handler"
      BY <1>2 DEF Apart, Late
    <3> QED BY <1>2, <1>6, <2>1, <3>1 DEF Makes, Running
  <2>2. CASE q # Main
    <3>1. q \in done
      BY <1>6, <2>2, UnfinishedIs, LiveIs, Names
    <3>2. q \notin upstream /\ postponed[q] = <<>> /\ ~Buffered(q) /\ handler[q] # "handler"
      BY <1>5, <3>1 DEF Untorn, Finished
    <3> QED BY <1>2, <3>2 DEF Makes, Running
  <2> QED BY <2>1, <2>2
<1>8. \A q \in Requests : postponed[q] = <<>>
  BY <1>7, <1>b, HasMade DEF Ordering
<1>9. ASSUME NEW y \in Whole, y \notin Range(out) PROVE FALSE
  <2>1. y[1] \in Requests
    BY <1>b, WholeIs DEF Base, TypeOK
  <2>2. y \notin Range(postponed[y[1]])
    BY <1>8, <2>1 DEF Range
  <2>3. PICK q \in Live : Makes(q)
    BY <1>5, <1>9, <2>2 DEF Accounted
  <2> QED BY <1>7, <2>3
<1> QED BY <1>9

(* The order of what the client gets, with what it takes to be inductive. *)
Full == ~astray => NoGap /\ (Main \in done => Whole \subseteq Range(out))

OrderInv == Apart /\ Ordering /\ Kept /\ Full

(* OrderInv holds at first, *)
LEMMA OrderInvInit == ASSUME Init PROVE OrderInv
<1>1. Apart /\ Ordering /\ Accounted
  BY OrderInit, AccountedInit
<1>2. Range(out) = {} /\ done = {}
  BY DEF Init, Range
<1> QED BY <1>1, <1>2 DEF OrderInv, Kept, Full, NoGap

(* every step keeps it, *)
LEMMA OrderInvNext ==
    ASSUME IInv, OrderInv, [Next]_vars
    PROVE  OrderInv'
<1>b. Base /\ Base'
  BY BaseNext DEF IInv
<1>1. Apart' /\ Ordering' /\ Kept'
  BY <1>b, ApartNext, OrderNext, KeptNext DEF OrderInv
<1>s. site' = site
  BY DEF Next, vars, Work, Events, Content, Finalize, RunPosted, WriteEvent, Idle, EmitData,
     Subrequest, EndContent, Flush, Written, FinalizeDone, FinalizeError, FinalizeLater,
     FinalizeActive, FinalizeEarly, FinalizeMain, Terminate, FinalizeConnection, Close,
     UpstreamEvent, PipeAborts, AioDone, Writable, SendTimeout, Lingered, ClientLeaves
<1>p. Whole' = Whole /\ \A y, z : Before(y, z)' <=> Before(y, z)
  BY <1>s, PageStays
<1>2. CASE UNCHANGED vars
  BY <1>1, <1>2, <1>p DEF vars, OrderInv, Full, NoGap
<1>3. CASE Next
  <2> SUFFICES ASSUME ~astray' PROVE NoGap' /\ (Main \in done' => Whole' \subseteq Range(out'))
    BY <1>1 DEF OrderInv, Full
  <2>1. NoGap /\ (Main \in done => Whole \subseteq Range(out))
    BY <1>3, Marks DEF OrderInv, Full
  <2>2. /\ Range(out) \subseteq Range(out')
        /\ (torn' \/ freed' \/ Doomed') => out' = out
    BY <1>3, SendsEnd
  <2>3. NoGap'
    <3>1. CASE ~torn' /\ ~freed' /\ ~Doomed'
      <4>1. Accounted'
        BY <1>1, <3>1 DEF Kept
      <4>2. (Base /\ Ordering /\ Accounted => NoGap)'
        BY NoGapIs, PTL
      <4> QED BY <1>1, <1>b, <4>1, <4>2
    <3>2. CASE out' = out
      BY <1>p, <2>1, <3>2 DEF NoGap
    <3> QED BY <2>2, <3>1, <3>2
  <2>4. ASSUME Main \in done' PROVE Whole \subseteq Range(out')
    <3>1. CASE Main \in done
      BY <2>1, <2>2, <3>1
    <3>2. CASE Main \notin done
      <4>1. Whole \subseteq Range(out)
        BY <1>3, <2>4, <3>2, MainEnds DEF OrderInv
      <4> QED BY <2>2, <4>1
    <3> QED BY <3>1, <3>2
  <2> QED BY <1>p, <2>3, <2>4
<1> QED BY <1>2, <1>3

(* so it is an invariant. *)
LEMMA OrderInvAlways == Spec => []OrderInv
<1>1. Init => OrderInv
  BY OrderInvInit
<1>2. IInv /\ OrderInv /\ [Next]_vars => OrderInv'
  BY OrderInvNext
<1> QED BY <1>1, <1>2, InvAlways, PTL DEF Spec

(* The client gets the parts of all responses in the order in which they     *)
(* stand in the page, whatever the order in which the requests make them and *)
(* the right to send goes round (ngx_http_postpone_filter()); but for a      *)
(* termination while a file is read for another request nothing that was     *)
(* made is passed over, and the main request ends after the last part was    *)
(* sent.  What an upstream that broke off did not deliver is no part.        *)
THEOREM OrderCorrect == Spec => []InOrder
<1>1. OrderInv => InOrder
  BY DEF OrderInv, Ordering, Sorted, Full, NoGap, InOrder
<1> QED BY <1>1, OrderInvAlways, PTL
-----------------------------------------------------------------------------
(* The order of the page is one *)

(* What stands above a request of the page is a chain. *)
LEMMA Chain ==
    ASSUME site \in Sites, NEW r \in Requests, NEW u \in Above(r), NEW v \in Above(r)
    PROVE  u \in Above(v) \/ v \in Above(u)
<1> DEFINE A == {q \in Above(r) : \A w \in Above(r) : q \in Above(w) \/ w \in Above(q)}
<1>a. Above(r) \subseteq Requests /\ r \in Above(r)
  BY AboveIs
<1>1. A \in SUBSET Requests /\ r \in A
  BY <1>a
<1>2. ASSUME NEW p \in Requests, NEW i \in DOMAIN Script(p), Script(p)[i] \in A
      PROVE  p \in A
  <2>1. Script(p)[i] \in Subs /\ Script(p)[i] \in Above(r) /\ Script(p)[i] \in Requests
    BY <1>1, <1>2, ScriptItem
  <2>2. p \in Above(r)
    BY <2>1, AboveIs
  <2>3. ASSUME NEW w \in Above(r) PROVE p \in Above(w) \/ w \in Above(p)
    <3>1. CASE Script(p)[i] \in Above(w)
      BY <1>a, <3>1, AboveIs
    <3>2. CASE w \in Above(Script(p)[i])
      <4>1. w = Script(p)[i] \/ w \in Above(p)
        BY <2>1, <3>2, AboveSub
      <4>2. p \in Above(Script(p)[i])
        BY <2>1, AboveIs
      <4> QED BY <4>1, <4>2
    <3> QED BY <1>2, <3>1, <3>2
  <2> QED BY <2>2, <2>3
<1>3. Above(r) \subseteq A
  <2> HIDE DEF A
  <2> QED BY <1>1, <1>2, AboveLeast
<1> QED BY <1>3

(* A part is, or stands in, one item of a response at most. *)
LEMMA OneWay ==
    ASSUME site \in Sites, NEW y \in Whole, NEW p \in Requests,
           NEW a \in Toward(p, y), NEW b \in Toward(p, y)
    PROVE  a = b
<1>y. y[1] \in Requests /\ Main \in Above(y[1]) /\ y = <<y[1], y[2]>>
  BY WholeIs
<1>t. /\ a \in DOMAIN Script(p) /\ (y = <<p, a>> \/ Script(p)[a] \in Above(y[1]))
      /\ b \in DOMAIN Script(p) /\ (y = <<p, b>> \/ Script(p)[b] \in Above(y[1]))
  BY DEF Toward
<1>p. p \in Above(y[1]) /\ Main \in Above(p)
  <2>1. p \in Above(y[1])
    BY <1>t, <1>y, AboveIs
  <2>2. Main \in Above(p) \/ p \in Above(Main)
    BY <1>y, <2>1, Chain
  <2> QED BY <2>1, <2>2, AboveMain
<1>s. \A i \in DOMAIN Script(p) : Script(p)[i] \in Above(y[1]) =>
         Script(p)[i] \in Subs /\ Script(p)[i] \notin Above(p)
  <2> SUFFICES ASSUME NEW i \in DOMAIN Script(p), Script(p)[i] \in Above(y[1])
               PROVE  Script(p)[i] \in Subs /\ Script(p)[i] \notin Above(p)
    OBVIOUS
  <2>1. Script(p)[i] \in Subs
    BY <1>y, AboveIs, ScriptItem
  <2> QED BY <1>p, <2>1, NoLoop
<1>1. CASE y = <<p, a>> \/ y = <<p, b>>
  BY <1>1, <1>s, <1>t, <1>y
<1>2. CASE Script(p)[a] \in Above(y[1]) /\ Script(p)[b] \in Above(y[1])
  <2>1. Script(p)[a] \in Subs /\ Script(p)[b] \in Subs
    BY <1>2, <1>s, <1>t
  <2>2. Script(p)[a] \in Above(Script(p)[b]) \/ Script(p)[b] \in Above(Script(p)[a])
    BY <1>2, <1>y, Chain
  <2>3. /\ Above(Script(p)[a]) = {Script(p)[a]} \cup Above(p)
        /\ Above(Script(p)[b]) = {Script(p)[b]} \cup Above(p)
    BY <1>t, <2>1, AboveSub
  <2>4. Script(p)[a] = Script(p)[b]
    BY <1>2, <1>s, <1>t, <2>2, <2>3
  <2> QED BY <1>t, <2>1, <2>4, SiteType
<1> QED BY <1>1, <1>2, <1>t

(* What leads to a request leads to all that stands in its response. *)
LEMMA OnTheWay ==
    ASSUME site \in Sites, NEW y \in Whole, NEW p \in Above(y[1]), NEW q \in Above(p), p # q
    PROVE  \E m \in DOMAIN Script(q) : Script(q)[m] \in Above(p) /\ m \in Toward(q, y)
<1>1. y[1] \in Requests /\ p \in Requests
  BY WholeIs, AboveIs
<1>2. PICK m \in DOMAIN Script(q) : Script(q)[m] \in Above(p)
  BY <1>1, Leads
<1>3. Above(p) \subseteq Above(y[1])
  BY <1>1, AboveOver
<1> QED BY <1>2, <1>3 DEF Toward

(* What leads to a part stands above it. *)
LEMMA TowardIsAbove ==
    ASSUME site \in Sites, NEW y \in Whole, NEW p \in Requests, NEW a \in Toward(p, y)
    PROVE  p \in Above(y[1]) /\ a \in Nat
<1>1. y[1] \in Requests /\ y = <<y[1], y[2]>>
  BY WholeIs
<1>2. a \in DOMAIN Script(p) /\ (y = <<p, a>> \/ Script(p)[a] \in Above(y[1]))
  BY DEF Toward
<1> QED BY <1>1, <1>2, AboveIs, ScriptItem

(* Whatever responses a page is made of, Before is a strict total order of   *)
(* its parts: to send them in this order is to send the page.                *)
THEOREM PageOrder ==
    ASSUME site \in Sites
    PROVE  /\ \A y \in Whole : ~Before(y, y)
           /\ \A x, y, z \in Whole : Before(x, y) /\ Before(y, z) => Before(x, z)
           /\ \A y, z \in Whole : y = z \/ Before(y, z) \/ Before(z, y)
<1>1. ASSUME NEW y \in Whole, Before(y, y) PROVE FALSE
  <2>p. PICK p \in Requests : \E a \in Toward(p, y), b \in Toward(p, y) : a < b
    BY <1>1 DEF Before
  <2>1. PICK a \in Toward(p, y), b \in Toward(p, y) : a < b
    BY <2>p
  <2>2. a = b /\ a \in Nat
    BY OneWay, TowardIsAbove
  <2> QED BY <2>1, <2>2
<1>2. ASSUME NEW x \in Whole, NEW y \in Whole, NEW z \in Whole, Before(x, y), Before(y, z)
      PROVE  Before(x, z)
  <2>p. PICK p \in Requests : \E a \in Toward(p, x), b \in Toward(p, y) : a < b
    BY <1>2 DEF Before
  <2>1. PICK a \in Toward(p, x), b \in Toward(p, y) : a < b
    BY <2>p
  <2>q. PICK q \in Requests : \E c \in Toward(q, y), d \in Toward(q, z) : c < d
    BY <1>2 DEF Before
  <2>2. PICK c \in Toward(q, y), d \in Toward(q, z) : c < d
    BY <2>q
  <2>3. /\ p \in Above(x[1]) /\ p \in Above(y[1]) /\ q \in Above(y[1]) /\ q \in Above(z[1])
        /\ a \in Nat /\ b \in Nat /\ c \in Nat /\ d \in Nat /\ y[1] \in Requests
    BY TowardIsAbove, WholeIs
  <2>4. CASE p = q
    <3>1. b = c
      BY <2>4, OneWay
    <3>2. a < d
      BY <2>1, <2>2, <2>3, <3>1
    <3> QED BY <2>4, <3>2 DEF Before
  <2>5. CASE p # q /\ q \in Above(p)
    <3>1. PICK m \in DOMAIN Script(q) : Script(q)[m] \in Above(p) /\ m \in Toward(q, y)
      BY <2>3, <2>5, OnTheWay
    <3>2. m = c
      BY <3>1, OneWay
    <3>3. Above(p) \subseteq Above(x[1])
      BY <2>3, WholeIs, AboveOver
    <3>4. m \in Toward(q, x)
      BY <3>1, <3>3 DEF Toward
    <3> QED BY <2>2, <3>2, <3>4 DEF Before
  <2>6. CASE p # q /\ p \in Above(q)
    <3>1. PICK m \in DOMAIN Script(p) : Script(p)[m] \in Above(q) /\ m \in Toward(p, y)
      BY <2>3, <2>6, OnTheWay
    <3>2. m = b
      BY <3>1, OneWay
    <3>3. Above(q) \subseteq Above(z[1])
      BY <2>3, WholeIs, AboveOver
    <3>4. m \in Toward(p, z)
      BY <3>1, <3>3 DEF Toward
    <3> QED BY <2>1, <3>2, <3>4 DEF Before
  <2> QED BY <2>3, <2>4, <2>5, <2>6, Chain
<1>3. ASSUME NEW y \in Whole, NEW z \in Whole, z[1] \in Above(y[1]), z[1] # y[1]
      PROVE  Before(y, z) \/ Before(z, y)
  <2>y. y[1] \in Requests /\ y[1] \in Above(y[1])
    BY WholeIs, AboveIs
  <2>z. z[1] \in Requests /\ z[2] \in DOMAIN Script(z[1]) /\ Script(z[1])[z[2]] = Data
    BY WholeIs
  <2>1. PICK m \in DOMAIN Script(z[1]) : Script(z[1])[m] \in Above(y[1]) /\ m \in Toward(z[1], y)
    BY <1>3, <2>y, OnTheWay
  <2>2. z[2] \in Toward(z[1], z)
    BY <2>z, WholeIs DEF Toward
  <2>3. m # z[2]
    BY <2>1, <2>y, <2>z, AboveIs, Names
  <2>4. m \in Nat /\ z[2] \in Nat
    BY <2>1, <2>2, <2>z, TowardIsAbove
  <2>5. m < z[2] \/ z[2] < m
    BY <2>3, <2>4
  <2> QED BY <2>1, <2>2, <2>5, <2>z DEF Before
<1>4. ASSUME NEW y \in Whole, NEW z \in Whole, y # z PROVE Before(y, z) \/ Before(z, y)
  <2>y. y[1] \in Requests /\ y[2] \in DOMAIN Script(y[1]) /\ y = <<y[1], y[2]>> /\ Main \in Above(y[1])
    BY WholeIs
  <2>z. z[1] \in Requests /\ z[2] \in DOMAIN Script(z[1]) /\ z = <<z[1], z[2]>> /\ Main \in Above(z[1])
    BY WholeIs
  <2>1. CASE y[1] = z[1]
    <3>1. y[2] # z[2]
      BY <1>4, <2>y, <2>z, <2>1
    <3>2. y[2] \in Toward(y[1], y) /\ z[2] \in Toward(y[1], z)
      BY <2>y, <2>z, <2>1 DEF Toward
    <3>3. y[2] \in Nat /\ z[2] \in Nat
      BY <2>y, <3>2, TowardIsAbove
    <3>4. y[2] < z[2] \/ z[2] < y[2]
      BY <3>1, <3>3
    <3> QED BY <2>y, <3>2, <3>4 DEF Before
  <2>2. CASE y[1] # z[1] /\ z[1] \in Above(y[1])
    BY <1>3, <2>2
  <2>3. CASE y[1] # z[1] /\ y[1] \in Above(z[1])
    BY <1>3, <2>3
  <2>4. CASE y[1] \notin Above(z[1]) /\ z[1] \notin Above(y[1])
    <3>p. PICK p \in Above(z[1]) \cap Requests : \E m \in DOMAIN Script(p) :
             Script(p)[m] \in Above(y[1]) \ Above(z[1])
      BY <2>y, <2>z, <2>4, Leaves
    <3>1. PICK m \in DOMAIN Script(p) : Script(p)[m] \in Above(y[1]) \ Above(z[1])
      BY <3>p
    <3>2. p # z[1]
      BY <2>4, <2>y, <3>1, AboveIs
    <3>3. PICK k \in DOMAIN Script(p) : Script(p)[k] \in Above(z[1])
      BY <2>z, <3>2, Leads
    <3>4. m # k /\ m \in Toward(p, y) /\ k \in Toward(p, z)
      BY <3>1, <3>3 DEF Toward
    <3>5. m \in Nat /\ k \in Nat
      BY <3>4, TowardIsAbove
    <3>6. m < k \/ k < m
      BY <3>4, <3>5
    <3> QED BY <3>4, <3>6 DEF Before
  <2> QED BY <2>1, <2>2, <2>3, <2>4
<1> QED BY <1>1, <1>2, <1>4

(* No part of a response is sent twice. *)
THEOREM SentOnce == Spec => [](\A i, j \in DOMAIN out : out[i] = out[j] => i = j)
<1>1. ASSUME Base, OrderInv PROVE \A i, j \in DOMAIN out : out[i] = out[j] => i = j
  <2> SUFFICES ASSUME NEW i \in DOMAIN out, NEW j \in DOMAIN out, out[i] = out[j], i # j PROVE FALSE
    OBVIOUS
  <2>1. site \in Sites /\ i \in Int /\ j \in Int
    <3>1. site \in Sites /\ out \in Seq(Requests \X (Nat \ {0}))
      BY <1>1 DEF Base, TypeOK
    <3> QED BY <3>1
  <2>2. out[i] \in Whole
    BY <1>1 DEF OrderInv, Ordering, Sorted, Range
  <2>3. i < j \/ j < i
    BY <2>1
  <2>4. Before(out[i], out[i])
    BY <1>1, <2>3 DEF OrderInv, Ordering, Sorted
  <2> QED BY <2>1, <2>2, <2>4, PageOrder
<1> QED BY <1>1, BaseAlways, OrderInvAlways, PTL
=============================================================================
