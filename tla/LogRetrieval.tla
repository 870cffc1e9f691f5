---------------------------- MODULE LogRetrieval ----------------------------
(***************************************************************************)
(* The log endpoint of the API server: GetLogURL finds a log record (module *)
(* LogLookup), then LogRetrieval fetches the log from the logging backend   *)
(* and passes it on: page by page, line by line, or, where lines are to be  *)
(* reversed or only the last ones are wanted, from a buffer.  Every request *)
(* and every read may fail or time out, the client may go away, and the     *)
(* backend may still be receiving lines.                                    *)
(***************************************************************************)
EXTENDS LogLookup, Sequences, SequencesExt

CONSTANTS
    PageSize,   \* entries the backend returns on a page
    MaxLog,     \* bound: entries of the backend's log
    Cursor,     \* timestamps of entries
    Shape,      \* lines an entry may have, as sequences: TRUE not blank
    Config      \* requests and configurations (see LogConfig)

(* provider: LOG_PROVIDERS has the record's URL, or only its base URL, or   *)
(*   neither, or the URL has no host; query: the record has a query.        *)
(* tail: tailLines, -1 when absent, 0 when not a positive number.           *)
(* endpoints: those configured, with a jsonPath that compiles; reverse,     *)
(*   paged, increment: of the endpoint used; cursors: its next-cursor path  *)
(*   selects something; inclusive: the backend's pages begin at the cursor  *)
(*   and not after it; perLine: entries in one line of a response.          *)
LogConfig ==
    [provider : {"direct", "base", "unknown", "nohost"}, query : BOOLEAN,
     tail : {-1} \cup Nat, endpoints : SUBSET {"full", "tail"},
     reverse : BOOLEAN, paged : BOOLEAN, increment : Nat, cursors : BOOLEAN,
     inclusive : BOOLEAN, perLine : Nat \ {0}]

ASSUME LogRetrievalAssumption ==
    /\ PageSize \in Nat \ {0} /\ MaxLog \in Nat /\ Cursor \subseteq 1..99
    /\ Shape \subseteq Seq(BOOLEAN) \ {<<>>, <<FALSE>>}
    /\ Config \subseteq LogConfig

VARIABLES
    conf,        \* the request's parameters and the configuration
    log,         \* the backend's log: entries with a timestamp and lines
    pc,          \* position of LogRetrieval
    response,    \* entries of the response, as indices of log
    allEntries, lineCount,  \* of writeBufferedLogs
    lastCursor,  \* of streamPaginatedLogs, 0 for ""
    status,      \* status of the answer, 0 before
    out,         \* lines written, as <<entry, line>> pairs
    outcome,     \* "none", "complete", or "cut" for an error after the start
    present      \* history: entries of the log when LogRetrieval began

retrieval == <<conf, log, pc, response, allEntries, lineCount, lastCursor,
               status, out, outcome, present>>
vars == <<created, owners, preferred, archived, urls, commits, step, target,
          ownersUuids, podUuids, pod, found, atStart, conf, log, pc, response,
          allEntries, lineCount, lastCursor, status, out, outcome, present>>

Entry == [at : Cursor, shape : Shape]

Mode == IF conf.tail = -1 THEN "full" ELSE "tail"
Legacy == conf.provider = "base" /\ ~conf.query
Paged == conf.paged /\ conf.tail <= 0 /\ ~conf.reverse /\ ~Legacy
Buffered == conf.tail > 0 \/ conf.reverse

\* Lines of entry k; the second form without blank lines.
LinesOf(k) == [j \in 1..Len(log[k].shape) |-> <<k, j>>]
FlatLines(k) == FlattenSeq([j \in 1..Len(log[k].shape) |->
                               IF log[k].shape[j] THEN <<<<k, j>>>> ELSE <<>>])

\* Lines of a sequence of entries, in the same two forms.
Lines(entries) == FlattenSeq([n \in DOMAIN entries |-> LinesOf(entries[n])])
Flattened(entries) == FlattenSeq([n \in DOMAIN entries |-> FlatLines(entries[n])])

Init ==
    /\ LookupInit
    /\ conf \in Config /\ log = <<>>
    /\ pc = "lookup" /\ response = <<>> /\ allEntries = <<>> /\ lineCount = 0
    /\ lastCursor = 0 /\ status = 0 /\ out = <<>> /\ outcome = "none" /\ present = 0

(* The backend receives an entry, none older than those it has.            *)
Receive(e) ==
    /\ Len(log) < MaxLog
    /\ log # <<>> => e.at >= log[Len(log)].at
    /\ log' = Append(log, e)
    /\ UNCHANGED <<lookupVars, conf, pc, response, allEntries, lineCount,
                   lastCursor, status, out, outcome, present>>

\* The handler ends: "complete", or "cut" when lines are already out, and
\* with an error status otherwise.
End(result, code) ==
    /\ pc' = "end" /\ outcome' = result /\ status' = code
    /\ UNCHANGED <<lookupVars, conf, log, response, allEntries, lineCount,
                   lastCursor, present>>

\* Fault: an error is answered although the log has begun.
Fail_Always(code) == End(IF status = 200 THEN "cut" ELSE "none", code) /\ UNCHANGED out

\* logsReturned decides between logging an error and answering with it.
Fail(code) ==
    /\ IF status = 200 THEN End("cut", status) ELSE End("none", code)
    /\ UNCHANGED out

\* Which provider, endpoint and way of reading; the refusals come first.
Resolve ==
    /\ pc = "lookup" /\ step = "end"
    /\ present' = Len(log)
    /\ LET refuse(code) == pc' = "end" /\ status' = code
           go(next) == pc' = next /\ status' = status
       IN CASE found # 200 -> refuse(found)
            [] conf.provider \in {"unknown", "nohost"} -> refuse(500)
            [] Mode = "tail" /\ Legacy -> refuse(400)
            [] Mode \notin conf.endpoints -> refuse(500)
            [] Paged -> go("page")
            [] OTHER -> go("request")
    /\ UNCHANGED <<lookupVars, conf, log, response, allEntries, lineCount,
                   lastCursor, out, outcome>>

(***************************************************************************)
(* streamPaginatedLogs                                                     *)
(***************************************************************************)
\* The backend's page for a cursor: the log is in the order of its timestamps,
\* so that what a cursor skips is its beginning.
Page(cursor) ==
    LET from == {k \in DOMAIN log : \/ cursor = 0
                                    \/ log[k].at > cursor
                                    \/ conf.inclusive /\ log[k].at = cursor}
        size == IF Cardinality(from) < PageSize THEN Cardinality(from) ELSE PageSize
    IN [i \in 1..size |-> Len(log) - Cardinality(from) + i]

\* Cursors are compared as text: "10" comes before "9".
TextLess(a, b) ==
    LET first(n) == IF n < 10 THEN n ELSE n \div 10
    IN \/ first(a) < first(b)
       \/ first(a) = first(b) /\ a < b

\* The largest cursor of a page.
NextCursor(page) ==
    LET cursors == {log[page[i]].at : i \in DOMAIN page}
    IN CHOOSE c \in cursors : \A d \in cursors : ~TextLess(c, d)

\* Paging stops when the cursor does not advance; the cursor it is compared
\* with has the increment already.
CursorStands(cursor) == cursor = lastCursor

\* Fault: the increment is left out.
Advance_NoIncrement(cursor) == cursor

Advance(cursor) == cursor + conf.increment

\* One page: none ends the log (404 when it is the first), another is written
\* out and the cursor moves.
FetchPage ==
    /\ pc = "page"
    /\ LET page == Page(lastCursor)
       IN \/ /\ page = <<>>
             /\ End("complete", IF status = 200 THEN 200 ELSE 404)
             /\ out' = out
          \/ /\ page # <<>>
             /\ out' = out \o Lines(page)
             /\ status' = 200
             /\ LET cursor == NextCursor(page)
                IN IF ~conf.cursors \/ CursorStands(cursor)
                   THEN /\ pc' = "end" /\ outcome' = "complete"
                        /\ lastCursor' = lastCursor
                   ELSE /\ lastCursor' = Advance(cursor)
                        /\ UNCHANGED <<pc, outcome>>
             /\ UNCHANGED <<lookupVars, conf, log, response, allEntries,
                            lineCount, present>>

\* A request fails, with an error of this server or the backend's own status,
\* which is passed on (404 stands for it).
PageFails == pc = "page" /\ \E code \in {404, 500} : Fail(code)

(***************************************************************************)
(* A single request, streamed or buffered                                  *)
(***************************************************************************)
\* The backend answers with the log, newest entry first when the endpoint is
\* a reversed one; asked for the last lines it returns that many entries.
SendRequest ==
    /\ pc = "request"
    /\ LET n == Len(log)
           all == IF conf.reverse THEN [k \in 1..n |-> n + 1 - k] ELSE [k \in 1..n |-> k]
           few == IF conf.tail > 0 /\ conf.tail < n
                  THEN IF conf.reverse THEN SubSeq(all, 1, conf.tail)
                                       ELSE SubSeq(all, n - conf.tail + 1, n)
                  ELSE all
       IN response' = few
    /\ pc' = "read" /\ present' = Len(log)
    /\ UNCHANGED <<lookupVars, conf, log, allEntries, lineCount, lastCursor,
                   status, out, outcome>>

RequestFails == pc = "request" /\ \E code \in {404, 500} : Fail(code)

\* Entries of the next line of the response, and the rest.
NextLine == SubSeq(response, 1, IF conf.perLine < Len(response)
                                THEN conf.perLine ELSE Len(response))
Rest == SubSeq(response, Len(NextLine) + 1, Len(response))

\* streamLogs: a line is parsed and passed on; at the end of the response the
\* handler ends, with 404 when there was nothing.
StreamLine ==
    /\ pc = "read" /\ ~Buffered
    /\ out' = out \o Lines(NextLine)
    /\ response' = Rest
    /\ status' = IF NextLine # <<>> THEN 200 ELSE status
    /\ IF Rest # <<>> THEN UNCHANGED <<pc, outcome>>
                      ELSE pc' = "end" /\ outcome' = "complete"
    /\ UNCHANGED <<lookupVars, conf, log, allEntries, lineCount, lastCursor, present>>

StreamNothing ==
    /\ pc = "read" /\ ~Buffered /\ response = <<>>
    /\ End("complete", 404) /\ UNCHANGED out

\* writeBufferedLogs: lines are read until the response ends or, with
\* tailLines, there are enough; blank ones count.
BufferLine ==
    /\ pc = "read" /\ Buffered
    /\ allEntries' = allEntries \o NextLine
    /\ lineCount' = lineCount + Len(Lines(NextLine))
    /\ response' = Rest
    /\ pc' = IF Rest = <<>> \/ (conf.tail > 0 /\ lineCount' >= conf.tail)
             THEN "write" ELSE "read"
    /\ UNCHANGED <<lookupVars, conf, log, lastCursor, status, out, outcome, present>>

ReadFails == pc = "read" /\ Fail(500)

\* Fault: the first lines are kept.
LastLines_First(lines) ==
    IF conf.tail > 0 /\ Len(lines) > conf.tail
    THEN SubSeq(lines, 1, conf.tail) ELSE lines

LastLines(lines) ==
    IF conf.tail > 0 /\ Len(lines) > conf.tail
    THEN SubSeq(lines, Len(lines) - conf.tail + 1, Len(lines)) ELSE lines

\* The buffer is put in order, split into lines without the blank ones, cut
\* to tailLines and written.
WriteBuffer ==
    /\ pc = "write"
    /\ IF allEntries = <<>>
       THEN End("complete", 404) /\ out' = out
       ELSE LET ordered == IF conf.reverse THEN Reverse(allEntries) ELSE allEntries
            IN /\ out' = LastLines(Flattened(ordered))
               /\ End("complete", 200)

\* Writing to the client fails.
ClientGone ==
    /\ pc \in {"page", "read"} /\ status = 200
    /\ End("cut", status) /\ UNCHANGED out

Handler ==
    \/ Resolve \/ FetchPage
    \/ SendRequest
    \/ (response # <<>> /\ StreamLine) \/ StreamNothing
    \/ BufferLine \/ WriteBuffer

Next ==
    \/ LookupNext /\ UNCHANGED retrieval
    \/ \E e \in Entry : Receive(e)
    \/ Handler
    \/ PageFails \/ RequestFails \/ ReadFails \/ ClientGone

Spec == Init /\ [][Next]_vars

(* A handler goes on until it ends: its queries and requests have time      *)
(* limits.                                                                  *)
FairSpec == Spec /\ WF_vars(LookupSteps /\ UNCHANGED retrieval) /\ WF_vars(Handler)

-----------------------------------------------------------------------------
\* Variables have the values the declarations say.
TypeOK ==
    /\ LookupTypeOK
    /\ conf \in Config /\ log \in Seq(Entry) /\ Len(log) <= MaxLog
    /\ pc \in {"lookup", "page", "request", "read", "write", "end"}
    /\ response \in Seq(Nat) /\ allEntries \in Seq(Nat) /\ lineCount \in Nat
    /\ lastCursor \in Nat
    /\ status \in {0, 200, 400, 404, 500}
    /\ out \in Seq(Nat \X Nat) /\ outcome \in {"none", "complete", "cut"}
    /\ present \in 0..MaxLog

\* Configurations that pages are exact for: the increment fits the backend,
\* no two entries share a timestamp (a page that ends between them skips the
\* second), all have as many digits, and a page has more than one entry (a
\* page of the one entry right after the last is taken for the end).
PagingFits ==
    /\ conf.cursors /\ PageSize > 1
    /\ conf.increment = (IF conf.inclusive THEN 1 ELSE 0)
    /\ \A j, k \in DOMAIN log : /\ log[j].at = log[k].at => j = k
                                /\ log[j].at < 10 <=> log[k].at < 10

\* The first n entries.
First(n) == [k \in 1..n |-> k]

\* A log that was passed on to its end, in pages or in one response, has every
\* entry that was there at the start, each one once and in order, though the
\* backend goes on receiving.
FullLogIsExact ==
    /\ pc = "end" /\ outcome = "complete" /\ status = 200 /\ ~Buffered
    /\ Paged => PagingFits
    => \E n \in present..Len(log) : out = Lines(First(n))

\* tailLines=N on an endpoint that returns the newest entries first gives the
\* last N lines of the log that are not blank, all of them when there are
\* fewer; an entry with blank lines may leave out lines at the beginning.
TailIsSuffix ==
    pc = "end" /\ outcome = "complete" /\ status = 200 /\ conf.tail > 0 /\ conf.reverse
        => LET full == Flattened(First(present))
               blanks == \E k \in 1..present : FlatLines(k) # LinesOf(k)
           IN /\ IsSuffix(out, full) /\ Len(out) <= conf.tail
              /\ ~blanks => Len(out) = (IF conf.tail < Len(full) THEN conf.tail
                                                                 ELSE Len(full))

\* The answer is 200 just when log lines were sent (or the entries had only
\* blank lines): no error follows lines of a log, and a log without lines is
\* never a success.  (Checked together with the types.)
StatusTellsLogs ==
    /\ TypeOK
    /\ pc = "end" /\ (\A k \in DOMAIN log : FlatLines(k) # <<>>)
        => (status = 200 <=> out # <<>>)

\* Every request for a log is answered.
RetrievalEnds == <>(pc = "end")
=============================================================================
