------------------------------- MODULE Loader -------------------------------
(***************************************************************************)
(* One run of a load job: runHttpLoadJob (src/loaders/http.ts), with its   *)
(* paginated multipart upload and its single request, and                  *)
(* runGoogleSheetsLoadJob (src/loaders/google-sheets.ts), from the job's   *)
(* configuration to the commit of the object in the catalog.               *)
(*                                                                         *)
(* The upstream, the object store and the catalog are what the code sees   *)
(* of them.  An item is known by its position in what was fetched and by   *)
(* the size of its JSON text, with the newline when the format is ndjson.  *)
(***************************************************************************)
EXTENDS Naturals, Sequences

CONSTANTS Formats,    \* formats of jobs (json, ndjson, csv, parquet)
          MinPart,    \* MIN_PART, the least size of a part (5 MB)
          MaxPages,   \* MAX_PAGINATION_PAGES (45)
          MaxSheet,   \* MAX_NDJSON_BYTES (50 MB)
          Sizes,      \* sizes of items
          PageLength, \* bound: items of a page ...
          MaxItems    \* ... and of a run

ASSUME LoaderAssumption ==
  /\ {"json", "ndjson"} \subseteq Formats
  /\ MinPart \in Nat /\ MaxPages \in Nat \ {0} /\ MaxSheet \in Nat
  /\ Sizes \subseteq Nat \ {0}
  /\ PageLength \in Nat /\ MaxItems \in Nat

VARIABLES pc,        \* the call or loop that the loader is at
          source,    \* paginated, whole (a single request) or sheet
          format,    \* the job's format; a sheet is written as ndjson
          first,     \* no item has been written yet
          pending,   \* items of the page that are not in the buffer yet
          more,      \* the page came with a cursor to the next one
          pageCount, \* pages followed
          buf,       \* chunks that no part holds yet
          bufSize,   \* their size
          stored,    \* the chunks of the uploaded parts, in the parts' order
          partSizes, \* the sizes of the parts
          upload,    \* the multipart upload in the object store
          object,    \* the set of the objects that the run has put in the store
          committed, \* the catalog has a snapshot of it
          fetched    \* history: every item that the upstream delivered

writer == <<first, pending, buf, bufSize>>
store  == <<stored, partSizes, upload, object>>
input  == <<more, pageCount, fetched>>
config == <<source, format>>
vars   == <<pc, config, writer, store, input, committed>>

Punctuation == {[text |-> t, size |-> 1] : t \in {"[", "]", ","}}
Item        == [item : Nat, size : Sizes]
Body        == [body |-> "of a response"]
Chunk       == Item \cup Punctuation \cup {Body}

Open  == [text |-> "[", size |-> 1]
Close == [text |-> "]", size |-> 1]
Comma == [text |-> ",", size |-> 1]

TypeOK ==
  /\ pc \in {"start", "initiate", "fetch", "enqueue", "next", "end", "abort",
             "complete", "get", "row", "put", "commit", "loaded", "failed"}
  /\ source \in {"paginated", "whole", "sheet"}
  /\ format \in Formats
  /\ first \in BOOLEAN /\ more \in BOOLEAN /\ committed \in BOOLEAN
  /\ pageCount \in 0..MaxPages
  /\ pending \in Seq(Item) /\ fetched \in Seq(Item)
  /\ buf \in Seq(Chunk) /\ stored \in Seq(Chunk)
  /\ bufSize \in Nat /\ partSizes \in Seq(Nat)
  /\ upload \in {"none", "open", "aborted", "completed"}
  /\ object \subseteq Seq(Chunk)

Init ==
  /\ pc = "start"
  /\ source \in {"paginated", "whole", "sheet"}
  /\ format \in Formats
  /\ source = "paginated" => format \in {"json", "ndjson"}
  /\ source = "sheet" => format = "ndjson"
  /\ first = TRUE /\ more = FALSE /\ committed = FALSE
  /\ pageCount = 0 /\ bufSize = 0
  /\ pending = <<>> /\ fetched = <<>>
  /\ buf = <<>> /\ stored = <<>> /\ partSizes = <<>>
  /\ upload = "none" /\ object = {}

Goto(from, to) == pc = from /\ pc' = to

-----------------------------------------------------------------------------
(* Creating and patching a job check its pagination against its format;    *)
(* update_load_job does so only when it is given a pagination.             *)
UpdateFormat(f) ==
  /\ Goto("start", "start") /\ source # "sheet"
  /\ format' = f
  /\ UNCHANGED <<source, writer, store, input, committed>>

(* Credential, storage backend and pagination are read and decrypted.      *)
Configure ==
  /\ Goto("start", IF source = "paginated" THEN "initiate" ELSE "get")
  /\ UNCHANGED <<config, writer, store, input, committed>>

(* Before there is an upload a failure only ends the run.                  *)
GiveUp ==
  /\ \E at \in {"start", "initiate", "get", "put"} : Goto(at, "failed")
  /\ UNCHANGED <<config, writer, store, input, committed>>

-----------------------------------------------------------------------------
(* The paginated path: fetchPages and the multipart writers.               *)

Enqueue(chunks, size) ==
  /\ buf' = buf \o chunks
  /\ bufSize' = bufSize + size

Initiate ==
  /\ Goto("initiate", "fetch")
  /\ upload' = "open"
  /\ IF format = "json" THEN Enqueue(<<Open>>, 1) ELSE UNCHANGED <<buf, bufSize>>
  /\ UNCHANGED <<config, first, pending, stored, partSizes, object, input, committed>>

(* The items of the given sizes are the next ones.                         *)
Deliver(sizes) ==
  LET items == [k \in DOMAIN sizes |-> [item |-> Len(fetched) + k, size |-> sizes[k]]]
  IN  /\ Len(fetched) + Len(sizes) <= MaxItems
      /\ pending' = items
      /\ fetched' = fetched \o items

FetchPage(sizes, cursor) ==
  /\ Goto("fetch", "enqueue")
  /\ Deliver(sizes)
  /\ more' = cursor
  /\ UNCHANGED <<config, first, buf, bufSize, store, pageCount, committed>>

(* The upstream answers with an error or with something else than a list.  *)
FetchFails ==
  /\ Goto("fetch", "abort")
  /\ UNCHANGED <<config, writer, store, input, committed>>

(* One round of the loop over a page's items.                              *)
EnqueueItem ==
  LET item == Head(pending) IN
  /\ Goto("enqueue", "enqueue") /\ pending # <<>>
  /\ pending' = Tail(pending)
  /\ IF format = "ndjson" THEN Enqueue(<<item>>, item.size) /\ UNCHANGED first
     ELSE /\ IF first THEN Enqueue(<<item>>, item.size)
             ELSE Enqueue(<<Comma, item>>, item.size + 1)
          /\ first' = FALSE
  /\ UNCHANGED <<config, store, input, committed>>

(* Seeded bugs: parts of any size; a rest that is too small is dropped.    *)
HoldsBackEmpty(isLast) == buf = <<>>
HoldsBackRest(isLast)  == buf = <<>> \/ bufSize < MinPart

(* flushPart returns without a part ...                                    *)
HoldsBack(isLast) == buf = <<>> \/ (~ isLast /\ bufSize < MinPart)

(* ... or the buffer becomes the next part.                                *)
UploadPart ==
  /\ stored' = stored \o buf
  /\ partSizes' = Append(partSizes, bufSize)
  /\ buf' = <<>> /\ bufSize' = 0
  /\ UNCHANGED <<first, pending, upload, object>>

FlushPart ==
  /\ Goto("enqueue", "next") /\ pending = <<>>
  /\ IF HoldsBack(FALSE) THEN UNCHANGED <<writer, store>> ELSE UploadPart
  /\ UNCHANGED <<config, input, committed>>

(* Seeded bug: pages that are not counted.                                *)
NextPageUncounted ==
  /\ pc = "next" /\ more
  /\ pc' = "fetch"
  /\ UNCHANGED <<config, writer, store, input, committed>>

NextPage ==
  /\ pc = "next" /\ more
  /\ pageCount' = pageCount + 1
  /\ pc' = IF pageCount + 1 >= MaxPages THEN "abort" ELSE "fetch"
  /\ UNCHANGED <<config, writer, store, more, fetched, committed>>

LastPage ==
  /\ Goto("next", "end") /\ ~ more
  /\ IF format = "json" THEN Enqueue(<<Close>>, 1) ELSE UNCHANGED <<buf, bufSize>>
  /\ UNCHANGED <<config, first, pending, store, input, committed>>

FlushLast ==
  /\ Goto("end", "complete")
  /\ IF HoldsBack(TRUE) THEN UNCHANGED <<writer, store>> ELSE UploadPart
  /\ UNCHANGED <<config, input, committed>>

(* uploadPart fails; the buffer has been emptied before the call.          *)
FlushFails ==
  /\ \/ Goto("enqueue", "abort") /\ pending = <<>> /\ ~ HoldsBack(FALSE)
     \/ Goto("end", "abort") /\ ~ HoldsBack(TRUE)
  /\ buf' = <<>> /\ bufSize' = 0
  /\ UNCHANGED <<config, first, pending, store, input, committed>>

(* The upload is aborted, or the call that aborts it fails, too.           *)
Abort ==
  /\ Goto("abort", "failed")
  /\ upload' \in {"aborted", "open"}
  /\ UNCHANGED <<config, writer, stored, partSizes, object, input, committed>>

Complete ==
  /\ Goto("complete", "commit")
  /\ upload' = "completed" /\ object' = {stored}
  /\ UNCHANGED <<config, writer, stored, partSizes, input, committed>>

(* The call is outside of the try: nothing is aborted.  It may have taken  *)
(* effect.                                                                 *)
CompleteFails ==
  /\ Goto("complete", "failed")
  /\ \/ upload' = "completed" /\ object' = {stored}
     \/ UNCHANGED <<upload, object>>
  /\ UNCHANGED <<config, writer, stored, partSizes, input, committed>>

-----------------------------------------------------------------------------
(* The single request streams the body of the response into the object.    *)
PutWhole ==
  /\ Goto("get", "commit") /\ source = "whole"
  /\ object' = {<<Body>>}
  /\ UNCHANGED <<config, writer, stored, partSizes, upload, input, committed>>

(* A sheet has a row of headers; the other rows are the items.             *)
FetchSheet(sizes) ==
  /\ Goto("get", "row") /\ source = "sheet"
  /\ Deliver(sizes)
  /\ UNCHANGED <<config, first, buf, bufSize, store, more, pageCount, committed>>

ConvertRow ==
  LET row == Head(pending) IN
  /\ pc = "row" /\ pending # <<>>
  /\ pc' = IF bufSize + row.size > MaxSheet THEN "failed" ELSE "row"
  /\ pending' = Tail(pending)
  /\ Enqueue(<<row>>, row.size)
  /\ UNCHANGED <<config, first, store, input, committed>>

RowsConverted ==
  /\ Goto("row", "put") /\ pending = <<>>
  /\ UNCHANGED <<config, writer, store, input, committed>>

PutSheet ==
  /\ Goto("put", "commit")
  /\ object' = {buf}
  /\ UNCHANGED <<config, writer, stored, partSizes, upload, input, committed>>

-----------------------------------------------------------------------------
Commit ==
  /\ Goto("commit", "loaded")
  /\ committed' = TRUE
  /\ UNCHANGED <<config, writer, store, input>>

(* It may have taken effect, too.                                          *)
CommitFails ==
  /\ Goto("commit", "failed")
  /\ committed' \in BOOLEAN
  /\ UNCHANGED <<config, writer, store, input>>

Pages == UNION {[1..n -> Sizes] : n \in 0..PageLength}

Next ==
  \/ \E f \in Formats : UpdateFormat(f)
  \/ Configure \/ GiveUp
  \/ Initiate \/ EnqueueItem \/ FlushPart \/ FlushLast \/ FlushFails
  \/ \E sizes \in Pages : FetchSheet(sizes) \/ \E c \in BOOLEAN : FetchPage(sizes, c)
  \/ FetchFails \/ NextPage \/ LastPage \/ Abort \/ Complete \/ CompleteFails
  \/ PutWhole \/ ConvertRow \/ RowsConverted \/ PutSheet
  \/ Commit \/ CommitFails

(* Calls return, a run that is queued begins; nothing is assumed of what   *)
(* the calls return.                                                       *)
Run  == Next /\ ~ \E f \in Formats : UpdateFormat(f)
Spec == Init /\ [][Next]_vars /\ WF_vars(Run)

-----------------------------------------------------------------------------
(* Properties.                                                             *)

(* A json text puts brackets around the items and commas between them.     *)
JsonText(text, items) ==
  LET n == Len(items) IN
  /\ Len(text) = IF n = 0 THEN 2 ELSE 2 * n + 1
  /\ text[1] = Open /\ text[Len(text)] = Close
  /\ \A k \in 1..n : text[2 * k] = items[k]
  /\ \A k \in 1..n : k < n => text[2 * k + 1] = Comma

(* In ndjson one item follows the other.                                   *)
Renders(text, items) ==
  /\ format = "ndjson" => text = items
  /\ format = "json" => JsonText(text, items)

(* What the catalog presents was read to its end, and the object is its    *)
(* text: every item once and in order, with nothing of it left in the      *)
(* buffer, however it was cut into pages and parts.                        *)
CommittedIsComplete ==
  committed =>
    \E text \in object :
      IF source = "whole" THEN text = <<Body>>
      ELSE ~ more /\ Renders(text, fetched)

(* "pagination_config requires output format json or ndjson": there is no  *)
(* other format that the pages' items are written in.  It does not hold    *)
(* once update_load_job has changed the format (README, section 3).        *)
PaginationRequiresJson ==
  committed /\ source = "paginated" => format \in {"json", "ndjson"}

(* "5 MB minimum S3 part size": only the last part may be smaller, and no  *)
(* part is empty.                                                          *)
PartsAreLargeEnough ==
  \A i \in DOMAIN partSizes :
    /\ partSizes[i] > 0
    /\ partSizes[i] < MinPart =>
         i = Len(partSizes) /\ pc \in {"complete", "commit", "loaded", "failed"}

(* Every run ends, even if the upstream never stops to send cursors.       *)
Terminates == <>(pc \in {"loaded", "failed"})
=============================================================================
