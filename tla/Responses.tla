------------------------------ MODULE Responses ------------------------------
(***************************************************************************)
(* How a response gets its status, headers and body: the handlers, the     *)
(* renderer (render.go) and the middleware around them, from the inside    *)
(* out compress, accessLog and recoverPanic (server.go, compress.go,       *)
(* middleware.go).                                                         *)
(*                                                                         *)
(* A response is the record the layers write to; each layer is an operator *)
(* from record to record that calls the one below, as the wrappers of      *)
(* http.ResponseWriter do.  net/http itself is external: it snapshots the  *)
(* headers with the first status and ignores every later one.              *)
(*                                                                         *)
(* Requests share nothing but the pool of gzip encoders, so a step reaches *)
(* from one touch of the pool to the next.                                 *)
(***************************************************************************)
EXTENDS Naturals, Sequences

CONSTANTS
    Requests,    \* requests being served
    Encoders,    \* gzip writers, pooled or not yet made
    None,
    MinSize,     \* gzipMinSize, in writes of a body
    AssetSizes   \* sizes of static files, in writes

Types == {"text", "binary"}   \* whether compressible(Content-Type)
Status == {0, 200, 206, 302, 303, 304, 404, 500, 502}

ASSUME SizesAssumption == MinSize \in Nat /\ AssetSizes \subseteq Nat \ {0}
ASSUME NoneAssumption == None \notin Requests \cup Encoders \cup Types \cup {"gzip"} \cup Nat

(* What handlers do with their writer: a page or fragment, one that tells   *)
(* what the registry refused where the data should be, the error page      *)
(* of renderError, the plain 502 of handleTagRows, /healthz, redirects     *)
(* after GET and POST, a row whose user has gone, and static files, whole, *)
(* in part, unmodified or unknown.                                         *)
Rendered == {"page", "banner", "missing"}
Brief == {"refused", "healthz", "redirect", "posted", "gone"}
Files == {"style", "font", "part"}
Assets == Files \cup {"unmodified", "no asset"}
Kinds == Rendered \cup Brief \cup Assets

VARIABLES
    pc,        \* where each request stands
    kind,      \* what it asks for
    response,  \* its response, through all layers
    left,      \* writes of a static file to come
    broken,    \* history: the handler panicked
    flawed,    \* history: its template failed
    logged,    \* history: the status on its line of the access log, or 0
    pool       \* gzipPool

vars == <<pc, kind, response, left, broken, flawed, logged, pool>>

Headers == [type : Types \cup {None}, length : Nat \cup {None}, encoding : {"gzip", None}]
Chunks == [form : {"raw", "gzip", "end"}, text : {"content", "banner", "error", "end"}]
Answers == [header : Headers, status : Status, sent : Headers, body : Seq(Chunks),
            offers : BOOLEAN, wrote : BOOLEAN, passing : BOOLEAN, gz : Encoders \cup {None},
            recorded : Status]

TypeOK ==
    /\ pc \in [Requests -> {"idle", "handle", "copy", "close", "put", "log", "recover", "flush", "sent"}]
    /\ kind \in [Requests -> Kinds \cup {None}]
    /\ response \in [Requests -> Answers]
    /\ left \in [Requests -> Nat]
    /\ broken \in [Requests -> BOOLEAN]
    /\ flawed \in [Requests -> BOOLEAN]
    /\ logged \in [Requests -> Status]
    /\ pool \subseteq Encoders

NoHeader == [type |-> None, length |-> None, encoding |-> None]

\* A response before the handler runs; the recorder presumes a 200.
Fresh(offers) == [header |-> NoHeader, status |-> 0, sent |-> NoHeader, body |-> <<>>,
                  offers |-> offers, wrote |-> FALSE, passing |-> FALSE, gz |-> None,
                  recorded |-> 200]

Init == /\ pc = [p \in Requests |-> "idle"]
        /\ kind = [p \in Requests |-> None]
        /\ response = [p \in Requests |-> Fresh(FALSE)]
        /\ left = [p \in Requests |-> 0]
        /\ broken = [p \in Requests |-> FALSE]
        /\ flawed = [p \in Requests |-> FALSE]
        /\ logged = [p \in Requests |-> 0]
        /\ pool = {}

-----------------------------------------------------------------------------
(* The layers, innermost first.                                            *)

Content == [form |-> "raw", text |-> "content"]
Banner == [form |-> "raw", text |-> "banner"]
Error == [form |-> "raw", text |-> "error"]
Trailer == [form |-> "end", text |-> "end"]
Compressed(chunk) == [chunk EXCEPT !.form = "gzip"]

\* net/http: the first status counts, with the headers of that moment.
NetWriteHeader(r, status) ==
    IF r.status # 0 THEN r ELSE [r EXCEPT !.status = status, !.sent = r.header]

\* All bodies written without a Content-Type are text or HTML, and sniffed so.
Sniffed(header) == IF header.type = None /\ header.encoding = None
                   THEN [header EXCEPT !.type = "text"] ELSE header

NetWrite(r, chunk) ==
    LET h == NetWriteHeader(r, 200)
    IN  [h EXCEPT !.body = Append(@, chunk), !.sent = Sniffed(@)]

\* Mutant: the recorder only counts bytes.
RecorderForgets(r, status) == NetWriteHeader(r, status)

\* statusRecorder: every call is recorded, superfluous ones too.
RecorderWriteHeader(r, status) ==
    NetWriteHeader([r EXCEPT !.recorded = status], status)

\* Mutant: the declared length stays when the body is compressed.
StaleLength(header) == [header EXCEPT !.encoding = "gzip"]

\* The headers of a response that will be compressed.
CompressedHeader(header) == [header EXCEPT !.encoding = "gzip", !.length = None]

\* What gzipResponseWriter.WriteHeader lets through as it is.
Passes(header) == \/ header.encoding # None
                  \/ header.type # "text"
                  \/ header.length # None /\ header.length < MinSize

\* gzipResponseWriter.WriteHeader; e is what the pool would give.
GzipWriteHeader(r, status, e) ==
    IF r.wrote THEN r
    ELSE IF Passes(r.header)
         THEN RecorderWriteHeader([r EXCEPT !.wrote = TRUE, !.passing = TRUE], status)
         ELSE RecorderWriteHeader([r EXCEPT !.wrote = TRUE, !.gz = e,
                                            !.header = CompressedHeader(@)], status)

WriteHeader(r, status, e) == IF r.offers THEN GzipWriteHeader(r, status, e)
                             ELSE RecorderWriteHeader(r, status)

\* gzipResponseWriter.Write decides first, if nobody has.
GzipWrite(r, chunk, e) ==
    LET h == IF r.wrote THEN r
             ELSE GzipWriteHeader([r EXCEPT !.header = Sniffed(@)], 200, e)
    IN  NetWrite(h, IF h.passing THEN chunk ELSE Compressed(chunk))

Write(r, chunk, e) == IF r.offers THEN GzipWrite(r, chunk, e) ELSE NetWrite(r, chunk)

SetType(r, type) == [r EXCEPT !.header.type = type]

\* http.Error: no length, plain text, the status, the message.
HttpError(r, status, e) ==
    Write(WriteHeader([r EXCEPT !.header.length = None, !.header.type = "text"], status, e),
          Error, e)

-----------------------------------------------------------------------------
(* The handlers.                                                           *)

\* Mutant: the template writes to the response as it goes.
RenderedStreaming(r, page, fails, e) ==
    LET begun == Write(SetType(r, "text"), page, e)
    IN  IF fails THEN HttpError(begun, 500, e) ELSE begun

\* render and renderPartial: all of the page, or a 500.
Render(r, page, fails, e) == IF fails THEN HttpError(r, 500, e)
                             ELSE Write(SetType(r, "text"), page, e)

\* renderError: the status goes out before the page is rendered.
RenderError(r, fails, e) == Render(WriteHeader(r, 404, e), Error, fails, e)

\* The catalog, its counts and a repository whose registry refuses are pages as
\* any other, with a banner in place of the data.
RenderedAnswer(k, r, fails, e) ==
    CASE k = "page" -> Render(r, Content, fails, e)
      [] k = "banner" -> Render(r, Banner, fails, e)
      [] k = "missing" -> RenderError(r, fails, e)

BriefAnswer(k, r, e) ==
    CASE k = "refused" -> HttpError(r, 502, e)
      [] k = "healthz" -> Write(SetType(r, "text"), Content, e)
      [] k = "redirect" -> Write(WriteHeader(SetType(r, "text"), 302, e), Content, e)
      [] k = "posted" -> WriteHeader(r, 303, e)
      [] k = "gone" -> r

\* http.FileServerFS up to the first write of a file of n writes.
AssetAnswer(k, n, r, e) ==
    LET Announce(type, status) ==
            WriteHeader([r EXCEPT !.header.type = type, !.header.length = n], status, e)
    IN  CASE k = "style" -> Write(Announce("text", 200), Content, e)
          [] k = "font" -> Write(Announce("binary", 200), Content, e)
          [] k = "part" -> Write(Announce("text", 206), Content, e)
          [] k = "unmodified" -> WriteHeader(r, 304, e)
          [] k = "no asset" -> HttpError(r, 404, e)

-----------------------------------------------------------------------------
(* One request.                                                            *)

GoTo(p, step) == pc' = [pc EXCEPT ![p] = step]

InUse == {response[q].gz : q \in Requests} \ {None}

\* gzipPool.Get: one of the pool, or a new one.
Obtainable == pool \cup (Encoders \ InUse)

\* The request's response becomes r; an encoder it took leaves the pool.
Respond(p, r) == /\ response' = [response EXCEPT ![p] = r]
                 /\ pool' = IF response[p].gz = None THEN pool \ {r.gz} ELSE pool

\* What follows when the handler has returned: finish, or the access log.
\* Static files are not logged.
AfterLog(p) == IF kind[p] \in Assets THEN "flush" ELSE "log"
AfterHandler(p, r) == IF r.gz # None THEN "close" ELSE AfterLog(p)

\* A request arrives, offering gzip or not; Vary is set in either case.
Arrive(p, k, offers) ==
    /\ pc[p] \in {"idle", "sent"}
    /\ GoTo(p, "handle")
    /\ kind' = [kind EXCEPT ![p] = k]
    /\ response' = [response EXCEPT ![p] = Fresh(offers)]
    /\ broken' = [broken EXCEPT ![p] = FALSE]
    /\ flawed' = [flawed EXCEPT ![p] = FALSE]
    /\ logged' = [logged EXCEPT ![p] = 0]
    /\ UNCHANGED <<left, pool>>

\* A page, a fragment or the error page; its template may fail.
ServeRendered(p, fails, e) ==
    /\ pc[p] = "handle" /\ kind[p] \in Rendered
    /\ LET r == RenderedAnswer(kind[p], response[p], fails, e)
       IN  /\ Respond(p, r)
           /\ GoTo(p, AfterHandler(p, r))
    /\ flawed' = [flawed EXCEPT ![p] = fails]
    /\ UNCHANGED <<kind, broken, logged, left>>

\* A handler that says little, or nothing.
ServeBrief(p, e) ==
    /\ pc[p] = "handle" /\ kind[p] \in Brief
    /\ LET r == BriefAnswer(kind[p], response[p], e)
       IN  /\ Respond(p, r)
           /\ GoTo(p, AfterHandler(p, r))
    /\ UNCHANGED <<kind, broken, flawed, logged, left>>

\* A static file of n writes: the headers and the first write ...
ServeAsset(p, n, e) ==
    /\ pc[p] = "handle" /\ kind[p] \in Assets
    /\ LET r == AssetAnswer(kind[p], n, response[p], e)
       IN  /\ Respond(p, r)
           /\ IF kind[p] \in Files /\ n > 1
              THEN GoTo(p, "copy") /\ left' = [left EXCEPT ![p] = n - 1]
              ELSE GoTo(p, AfterHandler(p, r)) /\ UNCHANGED left
    /\ UNCHANGED <<kind, broken, flawed, logged>>

\* ... and the next.
CopyMore(p) ==
    /\ pc[p] = "copy"
    /\ left' = [left EXCEPT ![p] = @ - 1]
    /\ LET r == Write(response[p], Content, None)
       IN  /\ Respond(p, r)
           /\ GoTo(p, IF left[p] > 1 THEN "copy" ELSE AfterHandler(p, r))
    /\ UNCHANGED <<kind, broken, flawed, logged>>

\* The handler panics before it has written anything, the status of an error
\* page perhaps excepted; the deferred finish finds no encoder, and no line is
\* logged.
Panic(p) ==
    /\ pc[p] = "handle"
    /\ response' \in {response}
                     \cup (IF kind[p] # "missing" THEN {}
                           ELSE {[response EXCEPT ![p] = WriteHeader(@, 404, None)]})
    /\ broken' = [broken EXCEPT ![p] = TRUE]
    /\ GoTo(p, "recover")
    /\ UNCHANGED <<kind, flawed, logged, pool, left>>

\* recoverPanic answers on the connection itself, beneath all other layers.
Recover(p) ==
    /\ pc[p] = "recover"
    /\ response' = [response EXCEPT ![p] =
         LET h == [@ EXCEPT !.header.length = None, !.header.type = "text"]
         IN  NetWrite(NetWriteHeader(h, 500), Error)]
    /\ GoTo(p, "flush")
    /\ UNCHANGED <<kind, broken, flawed, logged, pool, left>>

\* Mutant: the encoder is given back before its trailer is written.
CloseEncoderLast(p) ==
    /\ pc[p] = "close"
    /\ pool' = pool \cup {response[p].gz}
    /\ GoTo(p, "put")
    /\ UNCHANGED <<kind, response, broken, flawed, logged, left>>

\* finish: the encoder writes its trailer ...
CloseEncoder(p) ==
    /\ pc[p] = "close"
    /\ response' = [response EXCEPT ![p] = NetWrite(@, Trailer)]
    /\ GoTo(p, "put")
    /\ UNCHANGED <<kind, broken, flawed, logged, pool, left>>

\* ... and is given back.
PutEncoder(p) ==
    /\ pc[p] = "put"
    /\ pool' = pool \cup {response[p].gz}
    /\ response' = [response EXCEPT ![p].gz = None]
    /\ GoTo(p, AfterLog(p))
    /\ UNCHANGED <<kind, broken, flawed, logged, left>>

\* sync.Pool drops encoders when it likes.
PoolForgets(e) == /\ e \in pool
                  /\ pool' = pool \ {e}
                  /\ UNCHANGED <<pc, kind, response, left, broken, flawed, logged>>

\* The line of the access log.
Log(p) == /\ pc[p] = "log"
          /\ logged' = [logged EXCEPT ![p] = response[p].recorded]
          /\ GoTo(p, "flush")
          /\ UNCHANGED <<kind, response, broken, flawed, pool, left>>

\* net/http ends the response; a handler that said nothing has said 200.
Flush(p) == /\ pc[p] = "flush"
            /\ response' = [response EXCEPT ![p] = NetWriteHeader(@, 200)]
            /\ GoTo(p, "sent")
            /\ UNCHANGED <<kind, broken, flawed, logged, pool, left>>

Serve(p) == \/ \E e \in Obtainable : \/ \E fails \in BOOLEAN : ServeRendered(p, fails, e)
                                     \/ ServeBrief(p, e)
                                     \/ \E n \in AssetSizes : ServeAsset(p, n, e)
            \/ CopyMore(p)
            \/ Panic(p) \/ Recover(p)
            \/ CloseEncoder(p) \/ PutEncoder(p)
            \/ Log(p) \/ Flush(p)

Next == \/ \E p \in Requests, k \in Kinds, offers \in BOOLEAN : Arrive(p, k, offers)
        \/ \E p \in Requests : Serve(p)
        \/ \E e \in Encoders : PoolForgets(e)

Spec == Init /\ [][Next]_vars

-----------------------------------------------------------------------------
\* What the client can make of the body: what the headers it was sent declare.
Decodes(r) ==
    IF r.sent.encoding = "gzip"
    THEN /\ r.body # <<>> /\ r.body[Len(r.body)] = Trailer
         /\ \A i \in 1 .. Len(r.body) - 1 : r.body[i].form = "gzip"
         /\ r.sent.length = None
    ELSE /\ \A i \in DOMAIN r.body : r.body[i].form = "raw"
         /\ r.sent.length \in {None, Len(r.body)}

\* A finished response is what its headers say: all of it gzip with one
\* trailer at its end and no length, or none of it and as long as declared,
\* whatever handler, recorder and gzip writer each thought of status, type and
\* length at their time (compress.go:73-137, middleware.go:101-111).
ResponseCoherent == \A p \in Requests : pc[p] = "sent" => Decodes(response[p])

Says(r, text) == \E i \in DOMAIN r.body : r.body[i].text = text
ShowsPage(r) == Says(r, "content") \/ Says(r, "banner")

\* No page of renderError and no text of http.Error goes out under a status of
\* success, nor after a part of the page it should have been: also when the
\* template of the error page fails once its status is out.  And whoever asks for
\* what there is not, whose template fails or whose handler panics is sent one
\* of them.  A registry's refusal shown as a banner is a page, not an error, and
\* goes out as one (render.go:140-167, middleware.go:101-111,
\* handlers.go:101-103, 652-657).
ErrorsHaveErrorStatus ==
    \A p \in Requests :
        /\ Says(response[p], "error")
           => response[p].status >= 400 /\ ~ShowsPage(response[p])
        /\ pc[p] = "sent" /\ (broken[p] \/ flawed[p] \/ kind[p] = "missing")
           => Says(response[p], "error")

\* Two responses never write through the same encoder, however the pool hands
\* them round (compress.go:100-101, 130-137).
EncodersExclusive ==
    \A p, q \in Requests : p # q /\ response[p].gz # None => response[p].gz # response[q].gz

\* The access log tells the status that was sent, with one exception: an error
\* page whose own template fails is logged as a 500.  The exception needs a
\* client without gzip (middleware.go:62-65, 81-98; handlers.go:652-657).
LogTellsStatus ==
    \A p \in Requests :
        pc[p] = "sent" /\ logged[p] # 0
        => \/ logged[p] = response[p].status
           \/ kind[p] = "missing" /\ flawed[p] /\ ~response[p].offers
=============================================================================
