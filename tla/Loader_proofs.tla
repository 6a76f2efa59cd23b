--------------------------- MODULE Loader_proofs ----------------------------
(***************************************************************************)
(* Proofs about the loaders, for any sizes of items, pages, parts and      *)
(* sheets: a committed object is the complete text of what was fetched,    *)
(* and its parts are as large as the object store demands.                 *)
(***************************************************************************)
EXTENDS Loader, SequenceTheorems, TLAPS

-----------------------------------------------------------------------------
(* The text of the items so far.                                           *)

(* A json text without its closing bracket.                                *)
JsonPrefix(text, items) ==
  LET n == Len(items) IN
  /\ Len(text) = IF n = 0 THEN 1 ELSE 2 * n
  /\ text[1] = Open
  /\ \A k \in 1..n : text[2 * k] = items[k]
  /\ \A k \in 1..n : k < n => text[2 * k + 1] = Comma

Written(text, items) ==
  /\ format = "ndjson" => text = items
  /\ format = "json" => JsonPrefix(text, items)

LEMMA ChunkTypes == Item \subseteq Chunk /\ {Open, Close, Comma} \subseteq Chunk
BY DEF Chunk, Punctuation, Open, Close, Comma

(* The first item follows the bracket.                                     *)
LEMMA FirstJsonItem ==
  ASSUME NEW text \in Seq(Chunk), NEW item \in Item, JsonPrefix(text, <<>>)
  PROVE  JsonPrefix(text \o <<item>>, <<item>>)
<1> DEFINE last == <<item>>
<1>1. Len(text) = 1 /\ text[1] = Open
  BY DEF JsonPrefix
<1>2. last \in Seq(Chunk) /\ Len(last) = 1 /\ last[1] = item
  BY ChunkTypes
<1> HIDE DEF last
<1>3. Len(text \o last) = 2 /\ (text \o last)[1] = Open /\ (text \o last)[2] = item
  BY <1>1, <1>2, ConcatProperties
<1> QED
  BY <1>3 DEF JsonPrefix, last

(* Each later one follows a comma.                                         *)
LEMMA NextJsonItem ==
  ASSUME NEW text \in Seq(Chunk), NEW items \in Seq(Item), NEW item \in Item,
         items # <<>>, JsonPrefix(text, items)
  PROVE  JsonPrefix(text \o <<Comma, item>>, Append(items, item))
<1> DEFINE n == Len(items)
           longer == text \o <<Comma, item>>
           all == Append(items, item)
<1>1. n \in Nat /\ n > 0 /\ Len(text) = 2 * n
  BY DEF JsonPrefix
<1>2. <<Comma, item>> \in Seq(Chunk)
  BY ChunkTypes
<1>3. /\ Len(longer) = 2 * n + 2
      /\ \A i \in 1..(2 * n) : longer[i] = text[i]
      /\ longer[2 * n + 1] = Comma /\ longer[2 * n + 2] = item
  BY SMTT(20), <1>1, <1>2
<1>4. /\ Len(all) = n + 1 /\ all[n + 1] = item
      /\ \A i \in 1..n : all[i] = items[i]
  BY <1>1
<1> HIDE DEF longer, all
<1>5. longer[1] = Open
  BY <1>1, <1>3 DEF JsonPrefix
<1>6. ASSUME NEW k \in 1..(n + 1)
      PROVE  longer[2 * k] = all[k]
  <2>1. CASE k = n + 1
    BY <1>1, <1>3, <1>4, <2>1
  <2>2. CASE k \in 1..n
    <3>1. 2 * k \in 1..(2 * n)
      BY <1>1, <2>2
    <3> QED
      BY <1>3, <1>4, <2>2, <3>1 DEF JsonPrefix
  <2> QED
    BY <1>1, <2>1, <2>2
<1>7. ASSUME NEW k \in 1..(n + 1), k < n + 1
      PROVE  longer[2 * k + 1] = Comma
  <2>1. CASE k = n
    BY <1>3, <2>1
  <2>2. CASE k \in 1..n /\ k < n
    <3>1. 2 * k + 1 \in 1..(2 * n)
      BY <1>1, <2>2
    <3> QED
      BY <1>3, <2>2, <3>1 DEF JsonPrefix
  <2> QED
    BY <1>1, <1>7, <2>1, <2>2
<1>8. Len(longer) = 2 * (n + 1) /\ n + 1 # 0
  BY <1>1, <1>3
<1> QED
  BY <1>4, <1>5, <1>6, <1>7, <1>8 DEF JsonPrefix, longer, all

(* The closing bracket completes the text.                                 *)
LEMMA JsonEnd ==
  ASSUME NEW text \in Seq(Chunk), NEW items \in Seq(Item), format = "json",
         JsonPrefix(text, items)
  PROVE  Renders(text \o <<Close>>, items)
<1> DEFINE n == Len(items)
           whole == text \o <<Close>>
<1>1. n \in Nat /\ Len(text) = IF n = 0 THEN 1 ELSE 2 * n
  BY DEF JsonPrefix
<1>2. /\ Len(whole) = Len(text) + 1 /\ whole[Len(text) + 1] = Close
      /\ \A i \in 1..Len(text) : whole[i] = text[i]
  BY ChunkTypes
<1> HIDE DEF whole
<1>3. Len(whole) = IF n = 0 THEN 2 ELSE 2 * n + 1
  BY <1>1, <1>2
<1>4. whole[1] = Open /\ whole[Len(whole)] = Close
  BY <1>1, <1>2 DEF JsonPrefix
<1>5. ASSUME NEW k \in 1..n
      PROVE  whole[2 * k] = items[k] /\ (k < n => whole[2 * k + 1] = Comma)
  <2>1. 2 * k \in 1..Len(text) /\ (k < n => 2 * k + 1 \in 1..Len(text))
    BY <1>1
  <2> QED
    BY <1>2, <2>1 DEF JsonPrefix
<1> QED
  BY <1>3, <1>4, <1>5 DEF Renders, JsonText, whole

-----------------------------------------------------------------------------
(* Type correctness.                                                       *)

(* A page's items continue those fetched before.                           *)
LEMMA DeliverType ==
  ASSUME TypeOK, NEW sizes \in Pages, Deliver(sizes)
  PROVE  /\ pending' \in Seq(Item) /\ fetched' \in Seq(Item)
         /\ fetched' = fetched \o pending'
<1> DEFINE items == [k \in DOMAIN sizes |-> [item |-> Len(fetched) + k, size |-> sizes[k]]]
<1>1. PICK n \in 0..PageLength : sizes \in [1..n -> Sizes]
  BY DEF Pages
<1>2. n \in Nat /\ Len(fetched) \in Nat
  BY <1>1, LoaderAssumption DEF TypeOK
<1>3. items \in [1..n -> Item]
  BY <1>1, <1>2 DEF Item
<1>4. items \in Seq(Item)
  BY <1>2, <1>3, SeqDef
<1>5. pending' = items /\ fetched' = fetched \o items
  BY DEF Deliver
<1> HIDE DEF items
<1> QED
  BY <1>4, <1>5 DEF TypeOK

LEMMA EnqueueType ==
  ASSUME TypeOK, NEW chunks \in Seq(Chunk), NEW size \in Nat, Enqueue(chunks, size)
  PROVE  buf' \in Seq(Chunk) /\ bufSize' \in Nat
BY DEF Enqueue, TypeOK

LEMMA HeadOfPending ==
  ASSUME TypeOK, pending # <<>>
  PROVE  /\ Head(pending) \in Item /\ Tail(pending) \in Seq(Item)
         /\ Head(pending) \in Chunk
         /\ Head(pending).size \in Nat \ {0}
<1>1. Head(pending) \in Item /\ Tail(pending) \in Seq(Item)
  BY HeadTailProperties DEF TypeOK
<1> QED
  BY <1>1, LoaderAssumption DEF Item, Chunk

LEMMA UploadPartType ==
  ASSUME TypeOK, UploadPart
  PROVE  /\ stored' \in Seq(Chunk) /\ partSizes' \in Seq(Nat)
         /\ buf' \in Seq(Chunk) /\ bufSize' \in Nat
BY DEF UploadPart, TypeOK

(* While pages are followed, the limit is not reached yet.                 *)
PageBound == pc \in {"start", "initiate", "fetch", "enqueue", "next"} => pageCount < MaxPages

LEMMA TypeStep == TypeOK /\ PageBound /\ [Next]_vars => TypeOK'
<1> SUFFICES ASSUME TypeOK, PageBound, [Next]_vars
             PROVE  TypeOK'
  OBVIOUS
<1> USE DEF TypeOK, Goto, config, writer, store, input
<1>0. ASSUME NEW f \in Formats, UpdateFormat(f)
      PROVE  TypeOK'
  BY <1>0 DEF UpdateFormat
<1>1. CASE Configure \/ GiveUp \/ FetchFails \/ RowsConverted
  BY <1>1 DEF Configure, GiveUp, FetchFails, RowsConverted
<1>2. CASE Initiate
  <2>1. <<Open>> \in Seq(Chunk)
    BY ChunkTypes
  <2>2. buf' \in Seq(Chunk) /\ bufSize' \in Nat
    BY <1>2, <2>1, EnqueueType DEF Initiate
  <2> QED
    BY <1>2, <2>2 DEF Initiate
<1>3. ASSUME NEW sizes \in Pages, NEW c \in BOOLEAN, FetchPage(sizes, c)
      PROVE  TypeOK'
  BY <1>3, DeliverType DEF FetchPage
<1>4. ASSUME NEW sizes \in Pages, FetchSheet(sizes)
      PROVE  TypeOK'
  BY <1>4, DeliverType DEF FetchSheet
<1>5. CASE EnqueueItem
  <2> DEFINE item == Head(pending)
  <2>1. pending # <<>>
    BY <1>5 DEF EnqueueItem
  <2>2. /\ <<item>> \in Seq(Chunk) /\ <<Comma, item>> \in Seq(Chunk)
        /\ item.size \in Nat /\ item.size + 1 \in Nat
    BY <2>1, HeadOfPending, ChunkTypes
  <2>3. \/ Enqueue(<<item>>, item.size)
        \/ Enqueue(<<Comma, item>>, item.size + 1)
    BY <1>5 DEF EnqueueItem
  <2>4. buf' \in Seq(Chunk) /\ bufSize' \in Nat
    <3> HIDE DEF item
    <3> QED
      BY <2>2, <2>3, EnqueueType
  <2>5. pending' \in Seq(Item) /\ first' \in BOOLEAN
    BY <1>5, <2>1, HeadOfPending DEF EnqueueItem
  <2> QED
    BY <1>5, <2>4, <2>5 DEF EnqueueItem
<1>6. CASE FlushPart \/ FlushLast
  BY ZenonT(30), <1>6, UploadPartType DEF FlushPart, FlushLast, UploadPart
<1>7. CASE FlushFails
  BY <1>7, EmptySeq DEF FlushFails
<1>8. CASE NextPage
  <2>1. pageCount + 1 \in 0..MaxPages
    BY <1>8, LoaderAssumption DEF NextPage, PageBound
  <2> QED
    BY <1>8, <2>1 DEF NextPage
<1>9. CASE LastPage
  <2>1. <<Close>> \in Seq(Chunk)
    BY ChunkTypes
  <2>2. buf' \in Seq(Chunk) /\ bufSize' \in Nat
    BY <1>9, <2>1, EnqueueType DEF LastPage
  <2> QED
    BY <1>9, <2>2 DEF LastPage
<1>10. CASE Abort \/ Complete \/ CompleteFails
  BY <1>10 DEF Abort, Complete, CompleteFails
<1>11. CASE PutWhole
  BY <1>11 DEF PutWhole, Chunk
<1>12. CASE ConvertRow
  <2> DEFINE row == Head(pending)
  <2>1. pending # <<>>
    BY <1>12 DEF ConvertRow
  <2>2. <<row>> \in Seq(Chunk) /\ row.size \in Nat /\ Tail(pending) \in Seq(Item)
    BY <2>1, HeadOfPending
  <2>3. Enqueue(<<row>>, row.size)
    BY <1>12 DEF ConvertRow
  <2>4. buf' \in Seq(Chunk) /\ bufSize' \in Nat
    <3> HIDE DEF row
    <3> QED
      BY <2>2, <2>3, EnqueueType
  <2> QED
    BY <1>12, <2>2, <2>4 DEF ConvertRow
<1>13. CASE PutSheet \/ Commit \/ CommitFails
  BY <1>13 DEF PutSheet, Commit, CommitFails
<1>14. CASE UNCHANGED vars
  BY <1>14 DEF vars
<1> QED
  BY <1>0, <1>1, <1>2, <1>3, <1>4, <1>5, <1>6, <1>7, <1>8, <1>9, <1>10, <1>11, <1>12,
     <1>13, <1>14 DEF Next

LEMMA PageBoundStep == TypeOK /\ PageBound /\ [Next]_vars => PageBound'
<1> SUFFICES ASSUME TypeOK, PageBound, [Next]_vars
             PROVE  PageBound'
  OBVIOUS
<1> USE DEF PageBound, Goto, input
<1>0. ASSUME NEW f \in Formats, UpdateFormat(f)
      PROVE  PageBound'
  BY <1>0 DEF UpdateFormat, Goto, writer, store, input, PageBound
<1>1. CASE NextPage
  BY <1>1, LoaderAssumption DEF NextPage, TypeOK
<1>2. CASE \/ Configure \/ GiveUp \/ FetchFails \/ Initiate \/ EnqueueItem
           \/ FlushPart \/ FlushLast \/ FlushFails \/ LastPage \/ Abort
  BY <1>2 DEF Configure, GiveUp, FetchFails, Initiate, EnqueueItem, FlushPart,
     FlushLast, FlushFails, LastPage, Abort
<1>3. CASE \/ Complete \/ CompleteFails \/ PutWhole \/ ConvertRow \/ RowsConverted
           \/ PutSheet \/ Commit \/ CommitFails
  BY <1>3 DEF Complete, CompleteFails, PutWhole, ConvertRow, RowsConverted,
     PutSheet, Commit, CommitFails
<1>4. ASSUME NEW sizes \in Pages, FetchSheet(sizes) \/ \E c \in BOOLEAN : FetchPage(sizes, c)
      PROVE  PageBound'
  BY <1>4 DEF FetchSheet, FetchPage
<1>5. CASE UNCHANGED vars
  BY <1>5 DEF vars
<1> QED
  BY <1>0, <1>1, <1>2, <1>3, <1>4, <1>5 DEF Next

LEMMA TypeInit == Init => TypeOK /\ PageBound
<1>1. 0 \in 0..MaxPages /\ 0 < MaxPages
  BY LoaderAssumption
<1>2. /\ <<>> \in Seq(Item) /\ <<>> \in Seq(Chunk) /\ <<>> \in Seq(Nat)
      /\ {} \subseteq Seq(Chunk)
  BY EmptySeq
<1> SUFFICES ASSUME Init
             PROVE  TypeOK /\ PageBound
  OBVIOUS
<1> USE DEF Init
<1>3. first \in BOOLEAN /\ more \in BOOLEAN /\ committed \in BOOLEAN
  BY Zenon
<1>4. /\ pending \in Seq(Item) /\ fetched \in Seq(Item) /\ buf \in Seq(Chunk)
      /\ stored \in Seq(Chunk) /\ partSizes \in Seq(Nat) /\ object \subseteq Seq(Chunk)
  BY <1>2, Zenon
<1>5. pageCount \in 0..MaxPages /\ pageCount < MaxPages /\ bufSize \in Nat
  BY <1>1
<1>6. /\ pc = "start" /\ upload = "none"
      /\ source \in {"paginated", "whole", "sheet"} /\ format \in Formats
  OBVIOUS
<1> QED
  BY <1>3, <1>4, <1>5, <1>6 DEF TypeOK, PageBound

(* Every variable keeps its type; no more than MaxPages pages are followed. *)
THEOREM TypeCorrect == Spec => []TypeOK
BY TypeInit, TypeStep, PageBoundStep, PTL DEF Spec

-----------------------------------------------------------------------------
(* The committed object is complete.                                       *)

(* The text so far: what the parts hold and then what the buffer holds.    *)
Text == stored \o buf

(* The items that were fetched are those in the text and those pending.    *)
InLoop ==
  \E done \in Seq(Item) :
    /\ fetched = done \o pending
    /\ Written(Text, done)
    /\ format = "json" => (first <=> done = <<>>)

Presentable ==
  \E text \in object :
    IF source = "whole" THEN text = <<Body>>
    ELSE ~ more /\ Renders(text, fetched)

Sources ==
  /\ pc \in {"initiate", "fetch", "enqueue", "next", "end", "complete"} => source = "paginated"
  /\ pc \in {"row", "put"} => source = "sheet"
  /\ pc = "get" => source # "paginated"
  /\ source = "sheet" => format = "ndjson"

Fresh ==
  pc \in {"start", "initiate", "get"} =>
    /\ stored = <<>> /\ buf = <<>> /\ fetched = <<>> /\ pending = <<>>
    /\ more = FALSE /\ first = TRUE

Paging ==
  /\ pc \in {"fetch", "enqueue", "next"} => InLoop
  /\ pc \in {"fetch", "next"} => pending = <<>>
  /\ pc = "end" => ~ more /\ Renders(Text, fetched)
  /\ pc = "complete" => ~ more /\ Renders(stored, fetched)

Sheet ==
  /\ pc = "row" => ~ more /\ fetched = buf \o pending
  /\ pc = "put" => ~ more /\ fetched = buf

Published ==
  /\ pc = "commit" => Presentable
  /\ committed => pc \in {"loaded", "failed"} /\ Presentable

CompleteInv == Sources /\ Fresh /\ Paging /\ Sheet /\ Published

LEMMA CompleteAtFirst == Init => CompleteInv
BY DEF Init, CompleteInv, Sources, Fresh, Paging, Sheet, Published

LEMMA SourcesStep == Sources /\ [Next]_vars => Sources'
<1> SUFFICES ASSUME Sources, [Next]_vars
             PROVE  Sources'
  OBVIOUS
<1> USE DEF Sources, Goto, config
<1>0. ASSUME NEW f \in Formats, UpdateFormat(f)
      PROVE  Sources'
  BY <1>0 DEF UpdateFormat, Goto, writer, store, input, Sources
<1>1. CASE \/ Configure \/ GiveUp \/ FetchFails \/ Initiate \/ EnqueueItem
           \/ FlushPart \/ FlushLast \/ FlushFails \/ NextPage \/ LastPage \/ Abort
  BY <1>1 DEF Configure, GiveUp, FetchFails, Initiate, EnqueueItem, FlushPart,
     FlushLast, FlushFails, NextPage, LastPage, Abort
<1>2. CASE \/ Complete \/ CompleteFails \/ PutWhole \/ ConvertRow \/ RowsConverted
           \/ PutSheet \/ Commit \/ CommitFails
  BY <1>2 DEF Complete, CompleteFails, PutWhole, ConvertRow, RowsConverted,
     PutSheet, Commit, CommitFails
<1>3. ASSUME NEW sizes \in Pages, FetchSheet(sizes) \/ \E c \in BOOLEAN : FetchPage(sizes, c)
      PROVE  Sources'
  BY <1>3 DEF FetchSheet, FetchPage
<1>4. CASE UNCHANGED vars
  BY <1>4 DEF vars
<1> QED
  BY <1>0, <1>1, <1>2, <1>3, <1>4 DEF Next

(* An item or a row that goes to the buffer moves from what is pending to  *)
(* what is done.                                                           *)
LEMMA MoveItem ==
  ASSUME NEW done \in Seq(Item), NEW rest \in Seq(Item), rest # <<>>
  PROVE  /\ Append(done, Head(rest)) \in Seq(Item)
         /\ Append(done, Head(rest)) = done \o <<Head(rest)>>
         /\ Append(done, Head(rest)) \o Tail(rest) = done \o rest
<1> DEFINE one == <<Head(rest)>>
<1>1. Head(rest) \in Item /\ Tail(rest) \in Seq(Item)
  BY HeadTailProperties
<1>2. one \in Seq(Item) /\ Append(done, Head(rest)) = done \o one
  BY <1>1
<1>3. one \o Tail(rest) = rest
  BY <1>1
<1> HIDE DEF one
<1>4. (done \o one) \o Tail(rest) = done \o (one \o Tail(rest))
  BY <1>1, <1>2, ConcatAssociative
<1> QED
  BY <1>1, <1>2, <1>3, <1>4 DEF one

LEMMA InitiateEntersLoop ==
  ASSUME TypeOK, Fresh, Initiate
  PROVE  InLoop' /\ pending' = <<>>
<1>1. /\ stored' = <<>> /\ fetched' = <<>> /\ pending' = <<>> /\ first' = TRUE
      /\ buf = <<>> /\ format' = format
  BY DEF Initiate, Fresh, Goto, input, config
<1>2. <<>> \in Seq(Item) /\ <<>> \o <<>> = <<>>
  BY EmptySeq, ConcatEmptySeq
<1>3. CASE format = "ndjson"
  <2>1. stored' \o buf' = <<>>
    BY <1>1, <1>2, <1>3 DEF Initiate
  <2> QED
    BY <1>1, <1>2, <1>3, <2>1 DEF InLoop, Written, Text
<1>4. CASE format = "json"
  <2> DEFINE o == <<Open>>
  <2>1. o \in Seq(Chunk) /\ Len(o) = 1 /\ o[1] = Open
    BY ChunkTypes
  <2>2. buf' = buf \o o
    BY <1>4 DEF Initiate, Enqueue
  <2> HIDE DEF o
  <2>3. stored' \o buf' = o
    BY <1>1, <2>1, <2>2, ConcatEmptySeq
  <2>4. JsonPrefix(o, <<>>)
    BY <2>1 DEF JsonPrefix
  <2> QED
    BY <1>1, <1>2, <1>4, <2>3, <2>4 DEF InLoop, Written, Text
<1>5. CASE format \notin {"json", "ndjson"}
  BY <1>1, <1>2, <1>5 DEF InLoop, Written
<1> QED
  BY <1>3, <1>4, <1>5

LEMMA FetchKeepsLoop ==
  ASSUME TypeOK, Paging, NEW sizes \in Pages, NEW c \in BOOLEAN, FetchPage(sizes, c)
  PROVE  InLoop'
<1>1. PICK done \in Seq(Item) :
        /\ fetched = done \o pending /\ Written(Text, done)
        /\ format = "json" => (first <=> done = <<>>)
  BY DEF Paging, FetchPage, Goto, InLoop
<1>2. pending = <<>> /\ done \o <<>> = done
  BY ConcatEmptySeq DEF Paging, FetchPage, Goto
<1>3. fetched' = done \o pending'
  BY <1>1, <1>2, DeliverType DEF FetchPage
<1>4. Text' = Text /\ format' = format /\ first' = first
  BY DEF FetchPage, Text, store, config
<1>5. Written(Text, done)' /\ (format' = "json" => (first' <=> done = <<>>))
  BY <1>1, <1>4 DEF Written
<1> QED
  BY <1>3, <1>5 DEF InLoop

LEMMA EnqueueKeepsLoop ==
  ASSUME TypeOK, Paging, EnqueueItem
  PROVE  InLoop'
<1> DEFINE item == Head(pending)
<1>1. pending # <<>> /\ item \in Item /\ item \in Chunk /\ pending \in Seq(Item)
  BY HeadOfPending DEF EnqueueItem, TypeOK
<1>2. PICK done \in Seq(Item) :
        /\ fetched = done \o pending /\ Written(Text, done)
        /\ format = "json" => (first <=> done = <<>>)
  BY DEF Paging, EnqueueItem, Goto, InLoop
<1> DEFINE all == Append(done, item)
<1>3. /\ all \in Seq(Item) /\ all = done \o <<item>> /\ all # <<>>
      /\ all \o Tail(pending) = done \o pending
  BY <1>1, MoveItem
<1>4. fetched' = all \o pending'
  BY <1>2, <1>3 DEF EnqueueItem, input
<1>5. ASSUME NEW chunks \in Seq(Chunk), buf' = buf \o chunks
      PROVE  Text' = Text \o chunks /\ Text \in Seq(Chunk)
  <2>1. stored \in Seq(Chunk) /\ buf \in Seq(Chunk) /\ stored' = stored
    BY DEF TypeOK, EnqueueItem, store
  <2> QED
    BY SMTT(20), <1>5, <2>1, ConcatAssociative, ConcatProperties DEF Text
<1>6. <<item>> \in Seq(Chunk) /\ <<Comma, item>> \in Seq(Chunk)
  BY <1>1, ChunkTypes
<1> HIDE DEF item
<1>7. CASE format = "ndjson"
  <2>1. buf' = buf \o <<item>>
    BY <1>7 DEF EnqueueItem, Enqueue, item
  <2>2. Text' = Text \o <<item>> /\ Text = done
    BY <1>2, <1>5, <1>6, <1>7, <2>1 DEF Written
  <2>3. Text' = all /\ format' = "ndjson"
    BY <1>3, <1>7, <2>2 DEF EnqueueItem, config
  <2> QED
    BY <1>3, <1>4, <2>3 DEF InLoop, Written
<1>8. CASE format = "json"
  <2>1. format' = "json" /\ first' = FALSE
    BY <1>8 DEF EnqueueItem, config
  <2>2. JsonPrefix(Text, done) /\ (first <=> done = <<>>)
    BY <1>2, <1>8 DEF Written
  <2>3. CASE first
    <3>1. buf' = buf \o <<item>> /\ done = <<>>
      BY <1>8, <2>2, <2>3 DEF EnqueueItem, Enqueue, item
    <3>2. Text' = Text \o <<item>> /\ Text \in Seq(Chunk)
      BY <1>5, <1>6, <3>1
    <3>3. all = <<item>>
      BY <3>1
    <3>4. JsonPrefix(Text', all)
      BY <1>1, <2>2, <3>1, <3>2, <3>3, FirstJsonItem
    <3> QED
      BY <1>3, <1>4, <2>1, <3>4 DEF InLoop, Written
  <2>4. CASE ~ first
    <3>1. buf' = buf \o <<Comma, item>> /\ done # <<>>
      BY <1>8, <2>2, <2>4 DEF EnqueueItem, Enqueue, item
    <3>2. Text' = Text \o <<Comma, item>> /\ Text \in Seq(Chunk)
      BY <1>5, <1>6, <3>1
    <3>3. JsonPrefix(Text', all)
      BY <1>1, <2>2, <3>1, <3>2, NextJsonItem
    <3> QED
      BY <1>3, <1>4, <2>1, <3>3 DEF InLoop, Written
  <2> QED
    BY <2>3, <2>4
<1>9. CASE format \notin {"json", "ndjson"}
  <2>1. format' \notin {"json", "ndjson"}
    BY <1>9 DEF EnqueueItem, config
  <2> QED
    BY <1>3, <1>4, <2>1 DEF InLoop, Written
<1> QED
  BY <1>7, <1>8, <1>9

(* Cutting the text into parts does not change it.                         *)
LEMMA UploadKeepsText ==
  ASSUME TypeOK, UploadPart
  PROVE  Text' = Text /\ stored' = Text /\ buf' = <<>>
<1>1. stored \o buf \in Seq(Chunk)
  BY ConcatProperties DEF TypeOK
<1>2. stored' = stored \o buf /\ buf' = <<>>
  BY DEF UploadPart
<1>3. stored' \o <<>> = stored'
  BY <1>1, <1>2, ConcatEmptySeq
<1> QED
  BY <1>2, <1>3 DEF Text

LEMMA FlushKeepsLoop ==
  ASSUME TypeOK, Paging, FlushPart
  PROVE  InLoop' /\ pending' = <<>>
<1>1. Text' = Text /\ first' = first /\ pending' = pending
  BY UploadKeepsText DEF FlushPart, writer, store, Text, UploadPart
<1>2. fetched' = fetched /\ format' = format
  BY DEF FlushPart, input, config
<1>3. InLoop /\ pending = <<>>
  BY DEF FlushPart, Paging, Goto
<1>4. PICK done \in Seq(Item) :
        /\ fetched = done \o pending /\ Written(Text, done)
        /\ format = "json" => (first <=> done = <<>>)
  BY <1>3 DEF InLoop
<1>5. Written(Text, done)'
  BY <1>1, <1>2, <1>4 DEF Written
<1> QED
  BY <1>1, <1>2, <1>3, <1>4, <1>5 DEF InLoop

LEMMA LastPageEndsText ==
  ASSUME TypeOK, Paging, LastPage
  PROVE  ~ more' /\ Renders(Text, fetched)'
<1>1. InLoop /\ pending = <<>> /\ fetched \in Seq(Item)
  BY DEF LastPage, Paging, Goto, TypeOK
<1>2. PICK done \in Seq(Item) : fetched = done \o pending /\ Written(Text, done)
  BY <1>1 DEF InLoop
<1>3. fetched = done
  BY <1>1, <1>2, ConcatEmptySeq
<1>4. ~ more' /\ fetched' = fetched /\ stored' = stored /\ format' = format
  BY DEF LastPage, input, store, config
<1>5. CASE format = "ndjson"
  <2>1. Text' = Text
    BY <1>4, <1>5 DEF LastPage, Text
  <2> QED
    BY <1>2, <1>3, <1>4, <1>5, <2>1 DEF Written, Renders
<1>6. CASE format = "json"
  <2> DEFINE c == <<Close>>
  <2>1. c \in Seq(Chunk) /\ stored \in Seq(Chunk) /\ buf \in Seq(Chunk)
    BY ChunkTypes DEF TypeOK
  <2>2. buf' = buf \o c
    BY <1>6 DEF LastPage, Enqueue
  <2> HIDE DEF c
  <2>3. Text' = Text \o c /\ Text \in Seq(Chunk)
    BY SMTT(20), <1>4, <2>1, <2>2, ConcatAssociative, ConcatProperties DEF Text
  <2>4. Renders(Text \o <<Close>>, fetched)
    BY <1>2, <1>3, <1>6, <2>3, JsonEnd DEF Written
  <2> QED
    BY <1>4, <2>3, <2>4 DEF Renders, c
<1>7. CASE format \notin {"json", "ndjson"}
  BY <1>4, <1>7 DEF Renders
<1> QED
  BY <1>5, <1>6, <1>7

LEMMA FlushLastStoresText ==
  ASSUME TypeOK, Paging, FlushLast
  PROVE  ~ more' /\ Renders(stored, fetched)'
<1>1. ~ more /\ Renders(Text, fetched)
  BY DEF FlushLast, Paging, Goto
<1>2. more' = more /\ fetched' = fetched /\ format' = format
  BY DEF FlushLast, input, config
<1>3. stored' = Text
  <2>1. CASE buf = <<>>
    BY <2>1, ConcatEmptySeq DEF FlushLast, HoldsBack, store, Text, TypeOK
  <2>2. CASE buf # <<>>
    BY <2>2, UploadKeepsText DEF FlushLast, HoldsBack
  <2> QED
    BY <2>1, <2>2
<1> QED
  BY <1>1, <1>2, <1>3 DEF Renders

(* What a handler of rows does: the sheet's text is its rows.              *)
LEMMA SheetStep ==
  ASSUME TypeOK, Sources, Fresh, Sheet, [Next]_vars
  PROVE  Sheet'
<1> USE DEF Goto
<1>0. ASSUME NEW f \in Formats, UpdateFormat(f)
      PROVE  Sheet'
  BY <1>0 DEF UpdateFormat, Goto, writer, store, input, Sheet
<1>1. ASSUME NEW sizes \in Pages, FetchSheet(sizes)
      PROVE  Sheet'
  <2>1. fetched' = fetched \o pending' /\ pending' \in Seq(Item)
    BY <1>1, DeliverType DEF FetchSheet
  <2>2. fetched = <<>> /\ buf' = <<>> /\ ~ more'
    BY <1>1 DEF FetchSheet, Fresh
  <2> QED
    BY <1>1, <2>1, <2>2 DEF Sheet, FetchSheet
<1>2. CASE ConvertRow
  <2>1. pending # <<>> /\ ~ more /\ fetched = buf \o pending
    BY <1>2 DEF ConvertRow, Sheet
  <2>2. Head(pending) \in Chunk /\ Tail(pending) \in Seq(Item) /\ pending \in Seq(Item)
    BY <2>1, HeadOfPending DEF TypeOK
  <2> DEFINE one == <<Head(pending)>>
  <2>3. one \in Seq(Chunk) /\ buf \in Seq(Chunk) /\ Tail(pending) \in Seq(Chunk)
    BY <2>2, SeqMonotonic, ChunkTypes DEF TypeOK
  <2>4. one \o Tail(pending) = pending
    BY <2>1, <2>2
  <2>5. buf' = buf \o one /\ pending' = Tail(pending) /\ ~ more' /\ fetched' = fetched
    BY <1>2, <2>1 DEF ConvertRow, Enqueue, input
  <2>6. pc' # "put"
    BY <1>2 DEF ConvertRow
  <2> HIDE DEF one
  <2>7. (buf \o one) \o Tail(pending) = buf \o (one \o Tail(pending))
    BY <2>3, ConcatAssociative
  <2>8. fetched' = buf' \o pending'
    BY <2>1, <2>4, <2>5, <2>7
  <2> QED
    BY <2>5, <2>6, <2>8 DEF Sheet
<1>3. CASE RowsConverted
  <2>1. ~ more /\ fetched = buf \o <<>>
    BY <1>3 DEF RowsConverted, Sheet
  <2>2. buf \o <<>> = buf
    BY ConcatEmptySeq DEF TypeOK
  <2> QED
    BY <1>3, <2>1, <2>2 DEF RowsConverted, Sheet, writer, input
<1>4. CASE \/ Configure \/ GiveUp \/ FetchFails \/ Initiate \/ EnqueueItem
           \/ FlushPart \/ FlushLast \/ FlushFails \/ NextPage \/ LastPage \/ Abort
  BY <1>4 DEF Configure, GiveUp, FetchFails, Initiate, EnqueueItem, FlushPart,
     FlushLast, FlushFails, NextPage, LastPage, Abort, Sheet
<1>5. CASE \/ Complete \/ CompleteFails \/ PutWhole \/ PutSheet \/ Commit \/ CommitFails
  BY <1>5 DEF Complete, CompleteFails, PutWhole, PutSheet, Commit, CommitFails, Sheet
<1>6. ASSUME NEW sizes \in Pages, NEW c \in BOOLEAN, FetchPage(sizes, c)
      PROVE  Sheet'
  BY <1>6 DEF FetchPage, Sheet
<1>7. CASE UNCHANGED vars
  BY <1>7 DEF vars, writer, input, Sheet
<1> QED
  BY <1>0, <1>1, <1>2, <1>3, <1>4, <1>5, <1>6, <1>7 DEF Next

LEMMA FreshStep ==
  ASSUME Fresh, [Next]_vars
  PROVE  Fresh'
<1> USE DEF Fresh, Goto
<1>0. ASSUME NEW f \in Formats, UpdateFormat(f)
      PROVE  Fresh'
  BY <1>0 DEF UpdateFormat, Goto, writer, store, input, Fresh
<1>1. CASE Configure
  BY <1>1 DEF Configure, writer, store, input
<1>2. CASE \/ GiveUp \/ FetchFails \/ Initiate \/ EnqueueItem \/ FlushPart
           \/ FlushLast \/ FlushFails \/ NextPage \/ LastPage \/ Abort
  BY <1>2 DEF GiveUp, FetchFails, Initiate, EnqueueItem, FlushPart,
     FlushLast, FlushFails, NextPage, LastPage, Abort
<1>3. CASE \/ Complete \/ CompleteFails \/ PutWhole \/ ConvertRow \/ RowsConverted
           \/ PutSheet \/ Commit \/ CommitFails
  BY <1>3 DEF Complete, CompleteFails, PutWhole, ConvertRow, RowsConverted,
     PutSheet, Commit, CommitFails
<1>4. ASSUME NEW sizes \in Pages, FetchSheet(sizes) \/ \E c \in BOOLEAN : FetchPage(sizes, c)
      PROVE  Fresh'
  BY <1>4 DEF FetchSheet, FetchPage
<1>5. CASE UNCHANGED vars
  BY <1>5 DEF vars, writer, store, input
<1> QED
  BY <1>0, <1>1, <1>2, <1>3, <1>4, <1>5 DEF Next

LEMMA PagingStep ==
  ASSUME TypeOK, Fresh, Paging, [Next]_vars
  PROVE  Paging'
<1>0. ASSUME NEW f \in Formats, UpdateFormat(f)
      PROVE  Paging'
  BY <1>0 DEF UpdateFormat, Goto, writer, store, input, Paging
<1>1. CASE Initiate
  BY <1>1, InitiateEntersLoop DEF Initiate, Goto, Paging
<1>2. ASSUME NEW sizes \in Pages, NEW c \in BOOLEAN, FetchPage(sizes, c)
      PROVE  Paging'
  BY <1>2, FetchKeepsLoop DEF FetchPage, Goto, Paging
<1>3. CASE EnqueueItem
  BY <1>3, EnqueueKeepsLoop DEF EnqueueItem, Goto, Paging
<1>4. CASE FlushPart
  BY <1>4, FlushKeepsLoop DEF FlushPart, Goto, Paging
<1>5. CASE NextPage
  <2>1. UNCHANGED <<stored, buf, format, first, fetched, pending>>
    BY <1>5 DEF NextPage, writer, store, config
  <2>2. InLoop' /\ pending' = <<>>
    BY <1>5, <2>1 DEF NextPage, Paging, InLoop, Written, Text
  <2> QED
    BY <1>5, <2>2 DEF NextPage, Paging
<1>6. CASE LastPage
  BY <1>6, LastPageEndsText DEF LastPage, Goto, Paging
<1>7. CASE FlushLast
  BY <1>7, FlushLastStoresText DEF FlushLast, Goto, Paging
<1>8. CASE \/ Configure \/ GiveUp \/ FetchFails \/ FlushFails \/ Abort
           \/ Complete \/ CompleteFails
  BY <1>8 DEF Configure, GiveUp, FetchFails, FlushFails, Abort, Complete,
     CompleteFails, Goto, Paging
<1>9. CASE PutWhole \/ ConvertRow \/ RowsConverted \/ PutSheet \/ Commit \/ CommitFails
  BY <1>9 DEF PutWhole, ConvertRow, RowsConverted, PutSheet, Commit, CommitFails,
     Goto, Paging
<1>10. ASSUME NEW sizes \in Pages, FetchSheet(sizes)
       PROVE  Paging'
  BY <1>10 DEF FetchSheet, Goto, Paging
<1>11. CASE UNCHANGED vars
  <2>1. UNCHANGED <<pc, stored, buf, format, first, fetched, pending, more>>
    BY <1>11 DEF vars, writer, store, config, input
  <2> QED
    BY <2>1 DEF Paging, InLoop, Written, Text, Renders
<1> QED
  BY <1>0, <1>1, <1>2, <1>3, <1>4, <1>5, <1>6, <1>7, <1>8, <1>9, <1>10, <1>11 DEF Next

LEMMA PublishedStep ==
  ASSUME TypeOK, Sources, Paging, Sheet, Published, [Next]_vars
  PROVE  Published'
<1> USE DEF Goto
<1>0. ASSUME NEW f \in Formats, UpdateFormat(f)
      PROVE  Published'
  BY <1>0 DEF UpdateFormat, Goto, writer, store, input, Published
<1>1. CASE Complete \/ CompleteFails
  <2>1. ~ more /\ Renders(stored, fetched) /\ source # "whole" /\ ~ committed
    BY <1>1 DEF Complete, CompleteFails, Paging, Sources, Published
  <2>2. UNCHANGED <<stored, more, fetched, source, format, committed>>
    BY <1>1 DEF Complete, CompleteFails, input, config
  <2>3. pc' = "commit" => object' = {stored}
    BY <1>1 DEF Complete, CompleteFails
  <2>4. pc' = "commit" => Presentable'
    BY <2>1, <2>2, <2>3 DEF Presentable, Renders
  <2> QED
    BY <2>1, <2>2, <2>4 DEF Published
<1>2. CASE PutWhole
  <2>1. object' = {<<Body>>} /\ source' = "whole" /\ ~ committed'
    BY <1>2 DEF PutWhole, config, Published
  <2> QED
    BY <2>1 DEF Published, Presentable
<1>3. CASE PutSheet
  <2>1. ~ more /\ fetched = buf /\ source = "sheet" /\ format = "ndjson" /\ ~ committed
    BY <1>3 DEF PutSheet, Sheet, Sources, Published
  <2>2. UNCHANGED <<more, fetched, source, format, committed>> /\ object' = {buf}
    BY <1>3 DEF PutSheet, input, config
  <2>3. Presentable'
    BY <2>1, <2>2 DEF Presentable, Renders
  <2> QED
    BY <2>1, <2>2, <2>3 DEF Published
<1>4. CASE Commit \/ CommitFails
  <2>1. Presentable /\ pc' \in {"loaded", "failed"}
    BY <1>4 DEF Commit, CommitFails, Published
  <2>2. UNCHANGED <<object, more, fetched, source, format>>
    BY <1>4 DEF Commit, CommitFails, store, input, config
  <2>3. Presentable'
    BY <2>1, <2>2 DEF Presentable, Renders
  <2> QED
    BY <2>1, <2>3 DEF Published
<1>5. CASE \/ Configure \/ GiveUp \/ FetchFails \/ Initiate \/ EnqueueItem
           \/ FlushPart \/ FlushLast \/ FlushFails \/ NextPage \/ LastPage \/ Abort
  <2>1. pc \notin {"loaded", "failed", "commit"}
    BY <1>5 DEF Configure, GiveUp, FetchFails, Initiate, EnqueueItem, FlushPart,
       FlushLast, FlushFails, NextPage, LastPage, Abort
  <2>2. committed' = committed /\ pc' # "commit"
    BY <1>5 DEF Configure, GiveUp, FetchFails, Initiate, EnqueueItem, FlushPart,
       FlushLast, FlushFails, NextPage, LastPage, Abort
  <2> QED
    BY <2>1, <2>2 DEF Published
<1>6. CASE ConvertRow \/ RowsConverted
  BY <1>6 DEF ConvertRow, RowsConverted, Published
<1>7. ASSUME NEW sizes \in Pages, FetchSheet(sizes) \/ \E c \in BOOLEAN : FetchPage(sizes, c)
      PROVE  Published'
  BY <1>7 DEF FetchSheet, FetchPage, Published
<1>8. CASE UNCHANGED vars
  <2>1. UNCHANGED <<pc, object, more, fetched, source, format, committed>>
    BY <1>8 DEF vars, store, input, config
  <2> QED
    BY <2>1 DEF Published, Presentable, Renders
<1> QED
  BY <1>0, <1>1, <1>2, <1>3, <1>4, <1>5, <1>6, <1>7, <1>8 DEF Next

(* The catalog never presents a part of the data, or a text that cannot be *)
(* read: what is committed is the text of all that the upstream delivered. *)
THEOREM CommitsAreComplete == Spec => []CommittedIsComplete
<1>1. Init => TypeOK /\ PageBound /\ CompleteInv
  BY TypeInit, CompleteAtFirst
<1>2. TypeOK /\ CompleteInv /\ [Next]_vars => CompleteInv'
  BY SourcesStep, FreshStep, PagingStep, SheetStep, PublishedStep DEF CompleteInv
<1>3. CompleteInv => CommittedIsComplete
  BY DEF CompleteInv, Published, Presentable, CommittedIsComplete
<1> QED
  BY <1>1, <1>2, <1>3, TypeStep, PageBoundStep, PTL DEF Spec

-----------------------------------------------------------------------------
(* The parts are large enough.                                             *)

(* The size is that of a buffer, at least as far as emptiness goes.        *)
Buffered == buf = <<>> \/ bufSize > 0

LEMMA EnqueueBuffers ==
  ASSUME TypeOK, NEW chunks \in Seq(Chunk), NEW size \in Nat \ {0}, Enqueue(chunks, size)
  PROVE  Buffered'
BY DEF Enqueue, TypeOK, Buffered

LEMMA BufferedStep ==
  ASSUME TypeOK, Buffered, [Next]_vars
  PROVE  Buffered'
<1>0. ASSUME NEW f \in Formats, UpdateFormat(f)
      PROVE  Buffered'
  BY <1>0 DEF UpdateFormat, Goto, writer, store, input, Buffered
<1>1. CASE Initiate \/ LastPage
  <2>1. <<Open>> \in Seq(Chunk) /\ <<Close>> \in Seq(Chunk)
    BY ChunkTypes
  <2>2. Enqueue(<<Open>>, 1) \/ Enqueue(<<Close>>, 1) \/ UNCHANGED <<buf, bufSize>>
    BY <1>1 DEF Initiate, LastPage
  <2>3. CASE UNCHANGED <<buf, bufSize>>
    BY <2>3 DEF Buffered
  <2>4. ASSUME NEW chunks \in Seq(Chunk), Enqueue(chunks, 1)
        PROVE  Buffered'
    BY <2>4, EnqueueBuffers
  <2> QED
    BY <2>1, <2>2, <2>3, <2>4
<1>2. CASE EnqueueItem \/ ConvertRow
  <2> DEFINE item == Head(pending)
  <2>1. pending # <<>>
    BY <1>2 DEF EnqueueItem, ConvertRow
  <2>2. /\ <<item>> \in Seq(Chunk) /\ <<Comma, item>> \in Seq(Chunk)
        /\ item.size \in Nat \ {0} /\ item.size + 1 \in Nat \ {0}
    BY <2>1, HeadOfPending, ChunkTypes
  <2>3. Enqueue(<<item>>, item.size) \/ Enqueue(<<Comma, item>>, item.size + 1)
    BY <1>2 DEF EnqueueItem, ConvertRow
  <2> HIDE DEF item
  <2> QED
    BY <2>2, <2>3, EnqueueBuffers
<1>3. CASE FlushPart \/ FlushLast \/ FlushFails
  BY <1>3 DEF FlushPart, FlushLast, FlushFails, UploadPart, writer, Buffered
<1>4. CASE \/ Configure \/ GiveUp \/ FetchFails \/ NextPage \/ Abort \/ Complete
           \/ CompleteFails \/ PutWhole \/ RowsConverted \/ PutSheet \/ Commit \/ CommitFails
  BY <1>4 DEF Configure, GiveUp, FetchFails, NextPage, Abort, Complete, CompleteFails,
     PutWhole, RowsConverted, PutSheet, Commit, CommitFails, writer, Buffered
<1>5. ASSUME NEW sizes \in Pages, FetchSheet(sizes) \/ \E c \in BOOLEAN : FetchPage(sizes, c)
      PROVE  Buffered'
  BY <1>5 DEF FetchSheet, FetchPage, Buffered
<1>6. CASE UNCHANGED vars
  BY <1>6 DEF vars, writer, Buffered
<1> QED
  BY <1>0, <1>1, <1>2, <1>3, <1>4, <1>5, <1>6 DEF Next

LEMMA PartsStep ==
  ASSUME TypeOK, Buffered, PartsAreLargeEnough, [Next]_vars
  PROVE  PartsAreLargeEnough'
<1> USE DEF Goto
<1>0. ASSUME NEW f \in Formats, UpdateFormat(f)
      PROVE  PartsAreLargeEnough'
  BY <1>0 DEF UpdateFormat, Goto, writer, store, input, PartsAreLargeEnough
<1>1. CASE FlushPart \/ FlushLast
  <2>1. CASE UploadPart
    <3>1. bufSize > 0 /\ bufSize \in Nat /\ partSizes \in Seq(Nat)
      BY <1>1, <2>1 DEF FlushPart, FlushLast, HoldsBack, UploadPart, Buffered, TypeOK,
         writer, store
    <3>2. pc' # "complete" => bufSize >= MinPart
      BY <1>1, <2>1, LoaderAssumption DEF FlushPart, FlushLast, HoldsBack, UploadPart, Buffered, TypeOK,
         writer, store
    <3>3. partSizes' = Append(partSizes, bufSize)
      BY <2>1 DEF UploadPart
    <3>4. pc \notin {"complete", "commit", "loaded", "failed"}
      BY <1>1 DEF FlushPart, FlushLast
    <3>5. pc' \in {"next", "complete"}
      BY <1>1 DEF FlushPart, FlushLast
    <3> QED
      BY <3>1, <3>2, <3>3, <3>4, <3>5, LoaderAssumption DEF PartsAreLargeEnough
  <2>2. CASE ~ UploadPart
    <3>1. partSizes' = partSizes /\ pc \notin {"complete", "commit", "loaded", "failed"}
      BY <1>1, <2>2 DEF FlushPart, FlushLast, store
    <3> QED
      BY <3>1 DEF PartsAreLargeEnough
  <2> QED
    BY <2>1, <2>2
<1>2. CASE \/ Configure \/ GiveUp \/ FetchFails \/ Initiate \/ EnqueueItem
           \/ FlushFails \/ NextPage \/ LastPage \/ Abort
  <2>1. partSizes' = partSizes /\ pc \notin {"complete", "commit", "loaded", "failed"}
    BY <1>2 DEF Configure, GiveUp, FetchFails, Initiate, EnqueueItem, FlushFails,
       NextPage, LastPage, Abort, store
  <2> QED
    BY <2>1 DEF PartsAreLargeEnough
<1>3. CASE \/ Complete \/ CompleteFails \/ PutWhole \/ ConvertRow \/ RowsConverted
           \/ PutSheet \/ Commit \/ CommitFails
  <2>1. partSizes' = partSizes
    BY <1>3 DEF Complete, CompleteFails, PutWhole, ConvertRow, RowsConverted,
       PutSheet, Commit, CommitFails, store
  <2>2. \/ pc \notin {"complete", "commit", "loaded", "failed"}
        \/ pc' \in {"complete", "commit", "loaded", "failed"}
    BY <1>3 DEF Complete, CompleteFails, PutWhole, ConvertRow, RowsConverted,
       PutSheet, Commit, CommitFails
  <2> QED
    BY <2>1, <2>2 DEF PartsAreLargeEnough
<1>4. ASSUME NEW sizes \in Pages, FetchSheet(sizes) \/ \E c \in BOOLEAN : FetchPage(sizes, c)
      PROVE  PartsAreLargeEnough'
  BY <1>4 DEF FetchSheet, FetchPage, store, PartsAreLargeEnough
<1>5. CASE UNCHANGED vars
  BY <1>5 DEF vars, store, PartsAreLargeEnough
<1> QED
  BY <1>0, <1>1, <1>2, <1>3, <1>4, <1>5 DEF Next

(* The object store accepts the parts: none is empty and all but the last  *)
(* reach the least size, whatever the sizes of items and pages.            *)
THEOREM PartsStayLargeEnough == Spec => []PartsAreLargeEnough
<1>1. Init => TypeOK /\ PageBound
  BY TypeInit
<1>2. Init => Buffered /\ PartsAreLargeEnough
  BY DEF Init, Buffered, PartsAreLargeEnough
<1>3. TypeOK /\ Buffered /\ PartsAreLargeEnough /\ [Next]_vars
        => Buffered' /\ PartsAreLargeEnough'
  BY BufferedStep, PartsStep
<1> QED
  BY <1>1, <1>2, <1>3, TypeStep, PageBoundStep, PTL DEF Spec
=============================================================================
