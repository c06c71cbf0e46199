------------------------ MODULE EmailDeliveryProofs ------------------------
(***************************************************************************)
(* The safety of e-mail delivery for all sets of deliveries and workers,   *)
(* any number of faults and every kind of them.  Honest ties what a worker *)
(* is about to claim or to mail to what Google already accepted.  Account   *)
(* counts: the messages of a delivery, the workers that may still mail it   *)
(* and the mails that are out never exceed the first message and those      *)
(* that came back, and likewise for the workers that may still decide.      *)
(***************************************************************************)
EXTENDS EmailDelivery, SequenceTheorems, FiniteSetTheorems, TLAPS

Holding == \A w \in Workers : pc[w] = "idle" <=> task[w] = None

Links ==
    \A w \in Workers :
        /\ pc[w] \in {"open", "upload", "share"} => large
        /\ pc[w] \in {"idle", "begin", "open", "upload"} => link[w] = 0
        /\ pc[w] = "share" => link[w] \in DOMAIN drive /\ drive[link[w]].for = task[w]
        /\ pc[w] = "send" =>
               IF large THEN /\ link[w] \in DOMAIN drive
                             /\ drive[link[w]] = [for |-> task[w], shared |-> TRUE]
               ELSE link[w] = 0

\* Some mail is out for delivery d.
IsMailed(d) == \E i \in DOMAIN outbox : outbox[i].for = d

Posted == \A w \in Workers : pc[w] = "sent" => IsMailed(task[w])

Honest == TypeOK /\ Holding /\ Links /\ Posted /\ SentWasMailed /\ LinksOpen

-----------------------------------------------------------------------------
(* What a step may do to Drive and to the outbox. *)

\* A new file leaves the others as they are and has the next number.
LEMMA UploadGrows ==
    ASSUME TypeOK, NEW d \in Deliveries, drive' = Uploaded(d)
    PROVE  /\ drive' \in Seq(File)
           /\ Len(drive') \in DOMAIN drive' /\ Len(drive') \in Nat
           /\ drive'[Len(drive')] = [for |-> d, shared |-> FALSE]
           /\ \A k \in DOMAIN drive : k \in DOMAIN drive' /\ drive'[k] = drive[k]
<1>1. [for |-> d, shared |-> FALSE] \in File /\ drive \in Seq(File)
  BY DEF TypeOK, File
<1> HIDE DEF File
<1> QED
  BY <1>1, AppendProperties DEF Uploaded

\* Sharing a file changes that file only, and neither adds nor removes one.
LEMMA ShareGrows ==
    ASSUME TypeOK, NEW n \in DOMAIN drive,
           drive' = [drive EXCEPT ![n] = [for |-> @.for, shared |-> TRUE]]
    PROVE  /\ drive' \in Seq(File)
           /\ DOMAIN drive' = DOMAIN drive
           /\ drive'[n] = [for |-> drive[n].for, shared |-> TRUE]
           /\ \A k \in DOMAIN drive : /\ drive'[k].for = drive[k].for
                                      /\ drive[k].shared => drive'[k] = drive[k]
<1>1. drive \in Seq(File) /\ drive[n] \in File /\ DOMAIN drive = 1..Len(drive)
  BY DEF TypeOK
<1> DEFINE file == [for |-> drive[n].for, shared |-> TRUE]
<1>2. file \in File /\ file.for = drive[n].for
  BY <1>1 DEF File
<1>4. drive[n].shared => drive[n] = file
  BY <1>1 DEF File
<1>5. drive' = [drive EXCEPT ![n] = file]
  OBVIOUS
<1>6. drive' \in Seq(File) /\ DOMAIN drive' = DOMAIN drive
  <2> HIDE DEF File, file
  <2>1. n \in 1..Len(drive) /\ file \in File
    BY <1>1, <1>2
  <2>2. [drive EXCEPT ![n] = file] \in Seq(File)
    BY <1>1, <2>1, ExceptSeq
  <2> QED
    BY <1>5, <2>2
<1>7. drive'[n] = file /\ \A k \in DOMAIN drive : k # n => drive'[k] = drive[k]
  BY <1>5
<1> QED
  BY <1>2, <1>4, <1>6, <1>7

\* A new mail comes after the others.
LEMMA MailGrows ==
    ASSUME TypeOK, Holding, NEW w \in Workers, pc[w] # "idle", outbox' = Mailed(w)
    PROVE  /\ outbox' \in Seq(Mail)
           /\ DOMAIN outbox' = DOMAIN outbox \cup {Len(outbox) + 1}
           /\ Len(outbox) + 1 \notin DOMAIN outbox
           /\ outbox'[Len(outbox) + 1] = [for |-> task[w], link |-> link[w]]
           /\ \A k \in DOMAIN outbox : outbox'[k] = outbox[k]
<1>1. [for |-> task[w], link |-> link[w]] \in Mail /\ outbox \in Seq(Mail)
  BY DEF TypeOK, Holding, Mail
<1> HIDE DEF Mail
<1> QED
  BY <1>1, AppendProperties DEF Mailed

\* The row is new and PENDING.
LEMMA RequestHonest == ASSUME Honest, NEW d \in Deliveries, Request(d) PROVE Honest'
<1>1. TypeOK' /\ Holding'
  BY FaultsAssumption, NoneAssumption DEF Honest, TypeOK, Holding, Statuses, PCs, Trying,
     Request, Goto, Fault, queue, worker, report, google
<1>2. Links'
  BY DEF Honest, TypeOK, Links, Trying, Request, Goto, queue, worker, report, google
<1>3. Posted' /\ SentWasMailed' /\ LinksOpen'
  BY DEF Honest, TypeOK, Posted, IsMailed, SentWasMailed, LinksOpen, Trying,
     Request, Goto, queue, worker, report, google
<1> QED
  BY <1>1, <1>2, <1>3 DEF Honest

\* The message moves, or is never sent.
LEMMA QueueHonest ==
    ASSUME Honest, NEW d \in Deliveries, Enqueue(d) \/ EnqueueFails(d)
    PROVE  Honest'
<1>1. /\ unqueued' \in SUBSET Deliveries
      /\ broker' \in [Deliveries -> Nat]
      /\ faults' \in 0..MaxFaults
      /\ UNCHANGED <<status, returns, pc, task, loaded, token, link, session, large, there,
                     drive, outbox>>
  <2>1. unqueued' \in SUBSET Deliveries
    BY DEF Honest, TypeOK, Enqueue, EnqueueFails
  <2>2. broker' \in [Deliveries -> Nat]
    <3>1. CASE Enqueue(d)
      BY <3>1 DEF Honest, TypeOK, Enqueue
    <3>2. CASE EnqueueFails(d)
      BY <3>2 DEF Honest, TypeOK, EnqueueFails
    <3> QED
      BY <3>1, <3>2
  <2>3. faults' \in 0..MaxFaults
    BY FaultsAssumption DEF Honest, TypeOK, Enqueue, EnqueueFails, Fault
  <2> QED
    BY <2>1, <2>2, <2>3 DEF Enqueue, EnqueueFails, worker, report, google
<1>2. TypeOK' /\ Holding'
  BY <1>1, NoneAssumption DEF Honest, TypeOK, Holding, PCs, Trying
<1>3. Links'
  BY <1>1 DEF Honest, TypeOK, Links
<1>4. Posted'
  BY <1>1 DEF Honest, TypeOK, Holding, Posted, IsMailed
<1>5. SentWasMailed' /\ LinksOpen'
  BY <1>1 DEF Honest, SentWasMailed, LinksOpen
<1> QED
  BY <1>2, <1>3, <1>4, <1>5 DEF Honest

\* A worker takes the message.
LEMMA DeliverHonest == ASSUME Honest, NEW w \in Workers, NEW d \in Deliveries, Deliver(w, d) PROVE Honest'
<1>1. TypeOK' /\ Holding'
  BY FaultsAssumption, NoneAssumption DEF Honest, TypeOK, Holding, Statuses, PCs, Trying,
     Deliver, Goto, Fault, queue, worker, report, google
<1>2. Links'
  BY DEF Honest, TypeOK, Links, Trying, Deliver, Goto, queue, worker, report, google
<1>3. Posted' /\ SentWasMailed' /\ LinksOpen'
  BY DEF Honest, TypeOK, Posted, IsMailed, SentWasMailed, LinksOpen, Trying,
     Deliver, Goto, queue, worker, report, google
<1> QED
  BY <1>1, <1>2, <1>3 DEF Honest

\* The steps on the way to the mail that leave nothing with Google.
LEMMA AdvanceHonest ==
    ASSUME Honest, NEW w \in Workers, Attach(w) \/ DriveInit(w) \/ OpenReport(w)
    PROVE  Honest'
<1>1. /\ pc[w] \in {"begin", "open"}
      /\ \/ pc[w] = "begin" /\ pc' = [pc EXCEPT ![w] = "send"] /\ ~large
         \/ pc[w] = "begin" /\ pc' = [pc EXCEPT ![w] = "open"] /\ large
         \/ pc[w] = "open" /\ pc' = [pc EXCEPT ![w] = "upload"]
      /\ token' \in [Workers -> {"none", "good", "stale"}]
      /\ UNCHANGED <<status, unqueued, broker, returns, task, loaded, link, session, large, there, drive, outbox, faults>>
  BY DEF Honest, TypeOK, Attach, DriveInit, OpenReport, Goto, queue, report, google
<1>2. TypeOK' /\ Holding'
  BY <1>1, NoneAssumption DEF Honest, TypeOK, Holding, PCs, Trying
<1>3. Links'
  BY <1>1 DEF Honest, TypeOK, Links
<1>4. Posted'
  BY <1>1 DEF Honest, TypeOK, Holding, Posted, IsMailed
<1>5. SentWasMailed' /\ LinksOpen'
  BY <1>1 DEF Honest, SentWasMailed, LinksOpen
<1> QED
  BY <1>2, <1>3, <1>4, <1>5 DEF Honest

\* A token that runs out changes nothing else.
LEMMA TokenHonest ==
    ASSUME Honest, NEW w \in Workers, TokenExpires(w)
    PROVE  Honest'
<1>1. /\ token' \in [Workers -> {"none", "good", "stale"}]
      /\ UNCHANGED <<status, unqueued, broker, returns, pc, task, loaded, link, session, large, there, drive, outbox, faults>>
  BY DEF Honest, TypeOK, TokenExpires, queue, report, google
<1>2. TypeOK' /\ Holding'
  BY <1>1, NoneAssumption DEF Honest, TypeOK, Holding, PCs, Trying
<1>3. Links'
  BY <1>1 DEF Honest, TypeOK, Links
<1>4. Posted'
  BY <1>1 DEF Honest, TypeOK, Holding, Posted, IsMailed
<1>5. SentWasMailed' /\ LinksOpen'
  BY <1>1 DEF Honest, SentWasMailed, LinksOpen
<1> QED
  BY <1>2, <1>3, <1>4, <1>5 DEF Honest

\* Whatever raises leads to the handler, or out of the task.
LEMMA FailHonest ==
    ASSUME Honest, NEW w \in Workers,
           \/ ReportGone(w) \/ NoFile(w) \/ ShareDenied(w) \/ Raise(w) \/ RaiseLate(w)
           \/ Disabled(w) \/ Escape(w)
    PROVE  Honest'
<1>1. /\ pc[w] # "idle"
      /\ pc' = [pc EXCEPT ![w] = "except"] \/ pc' = [pc EXCEPT ![w] = "done"]
      /\ faults' \in 0..MaxFaults
      /\ UNCHANGED <<status, unqueued, broker, returns, task, loaded, token, link, session, large, there, drive, outbox>>
  BY FaultsAssumption DEF Honest, TypeOK, Trying, ReportGone, NoFile, ShareDenied, Raise,
     RaiseLate, Disabled, Escape, Fault, Goto, queue, report, google
<1>2. TypeOK' /\ Holding'
  BY <1>1, NoneAssumption DEF Honest, TypeOK, Holding, PCs, Trying
<1>3. Links'
  BY <1>1 DEF Honest, TypeOK, Links
<1>4. Posted'
  BY <1>1 DEF Honest, TypeOK, Holding, Posted, IsMailed
<1>5. SentWasMailed' /\ LinksOpen'
  BY <1>1 DEF Honest, SentWasMailed, LinksOpen
<1> QED
  BY <1>2, <1>3, <1>4, <1>5 DEF Honest

\* What the task counts and what Drive has stay below the chunks there are.
LEMMA NoChunksType == NoChunks \in [put : 0..Chunks, kept : 0..Chunks]
BY ChunksAssumption DEF NoChunks

\* A chunk is put, dropped or refused; nothing is on Drive before the last one.
LEMMA ChunkHonest ==
    ASSUME Honest, NEW w \in Workers, PutChunk(w) \/ ChunkDropped(w) \/ ChunkAstray(w)
    PROVE  Honest'
<1> DEFINE Counts == [put : 0..Chunks, kept : 0..Chunks]
<1>1. /\ pc[w] = "upload"
      /\ pc' = pc \/ pc' = [pc EXCEPT ![w] = "except"]
      /\ session' \in [Workers -> Counts]
      /\ faults' \in 0..MaxFaults
      /\ UNCHANGED <<status, unqueued, broker, returns, task, loaded, token, link, large, there, drive, outbox>>
  <2>1. session \in [Workers -> Counts] /\ session[w] \in Counts
    BY DEF Honest, TypeOK
  <2>2. session[w].put \in 0..Chunks /\ session[w].kept \in 0..Chunks
    BY <2>1
  <2>3. ASSUME NEW k \in 0..Chunks, session[w].put < Chunks, Count(w, k)
        PROVE  session' \in [Workers -> Counts]
    <3>1. session[w].put + 1 \in 0..Chunks
      BY <2>2, <2>3, ChunksAssumption
    <3>2. [put |-> session[w].put + 1, kept |-> k] \in Counts
      BY <2>3, <3>1
    <3> HIDE DEF Counts
    <3> QED
      BY <2>1, <2>3, <3>2 DEF Count
  <2>4. session' \in [Workers -> Counts]
    <3>1. CASE PutChunk(w)
      <4>1. session[w].put < Chunks /\ session[w].kept + 1 \in 0..Chunks
        BY <2>2, <3>1, ChunksAssumption DEF PutChunk, Fits
      <4> QED
        BY <2>3, <3>1, <4>1 DEF PutChunk
    <3>2. CASE ChunkDropped(w)
      BY <2>2, <2>3, <3>2 DEF ChunkDropped, Fits
    <3>3. CASE ChunkAstray(w)
      BY <2>1, <2>2, <2>3, <3>3 DEF ChunkAstray
    <3> QED
      BY <3>1, <3>2, <3>3
  <2>5. faults' \in 0..MaxFaults
    BY FaultsAssumption DEF Honest, TypeOK, PutChunk, ChunkDropped, ChunkAstray, Fault
  <2> QED
    BY <2>4, <2>5 DEF PutChunk, ChunkDropped, ChunkAstray, Goto, queue, report, google
<1>2. TypeOK' /\ Holding'
  BY <1>1, NoneAssumption DEF Honest, TypeOK, Holding, PCs, Trying
<1>3. Links'
  BY <1>1 DEF Honest, TypeOK, Links
<1>4. Posted'
  BY <1>1 DEF Honest, TypeOK, Holding, Posted, IsMailed
<1>5. SentWasMailed' /\ LinksOpen'
  BY <1>1 DEF Honest, SentWasMailed, LinksOpen
<1> QED
  BY <1>2, <1>3, <1>4, <1>5 DEF Honest

\* The worker lets the message go.
LEMMA EndHonest ==
    ASSUME Honest, NEW w \in Workers, Ack(w) \/ Crash(w) \/ Kill(w)
    PROVE  Honest'
<1>1. /\ pc' = [pc EXCEPT ![w] = "idle"] /\ task' = [task EXCEPT ![w] = None]
      /\ loaded' = [loaded EXCEPT ![w] = "absent"] /\ token' = [token EXCEPT ![w] = "none"]
      /\ link' = [link EXCEPT ![w] = 0] /\ session' = [session EXCEPT ![w] = NoChunks]
      /\ broker' \in [Deliveries -> Nat] /\ returns' \in [Deliveries -> Nat]
      /\ faults' \in 0..MaxFaults
      /\ "absent" \in Statuses
      /\ UNCHANGED <<status, unqueued, large, there, drive, outbox>>
  <2>1. pc[w] # "idle" /\ task[w] \in Deliveries
    BY DEF Honest, TypeOK, Holding, Ack, Crash, Kill
  <2>2. broker' \in [Deliveries -> Nat] /\ returns' \in [Deliveries -> Nat]
    <3>1. CASE Crash(w)
      BY <2>1, <3>1 DEF Honest, TypeOK, Crash, Return
    <3>2. CASE Ack(w) \/ Kill(w)
      BY <3>2 DEF Honest, TypeOK, Ack, Kill, queue
    <3> QED
      BY <3>1, <3>2
  <2>3. faults' \in 0..MaxFaults
    BY FaultsAssumption DEF Honest, TypeOK, Ack, Crash, Kill, Fault
  <2> QED
    BY <2>2, <2>3 DEF Statuses, Ack, Crash, Kill, Release, queue, report, google
<1>2. TypeOK' /\ Holding'
  BY <1>1, NoneAssumption, NoChunksType DEF Honest, TypeOK, Holding, PCs, Trying
<1>3. Links'
  BY <1>1 DEF Honest, TypeOK, Links
<1>4. Posted'
  BY <1>1 DEF Honest, TypeOK, Holding, Posted, IsMailed
<1>5. SentWasMailed' /\ LinksOpen'
  BY <1>1 DEF Honest, SentWasMailed, LinksOpen
<1> QED
  BY <1>2, <1>3, <1>4, <1>5 DEF Honest

\* The message is duplicated.
LEMMA RedeliverHonest == ASSUME Honest, NEW w \in Workers, Redeliver(w) PROVE Honest'
<1>1. TypeOK' /\ Holding'
  BY FaultsAssumption, NoneAssumption DEF Honest, TypeOK, Holding, Statuses, PCs, Trying,
     Redeliver, Return, Goto, Fault, queue, worker, report, google
<1>2. Links'
  BY DEF Honest, TypeOK, Links, Trying, Redeliver, Goto, queue, worker, report, google
<1>3. Posted' /\ SentWasMailed' /\ LinksOpen'
  BY DEF Honest, TypeOK, Posted, IsMailed, SentWasMailed, LinksOpen, Trying,
     Redeliver, Goto, queue, worker, report, google
<1> QED
  BY <1>1, <1>2, <1>3 DEF Honest

\* The report disappears.
LEMMA RetentionHonest == ASSUME Honest, Retention PROVE Honest'
<1>1. TypeOK' /\ Holding'
  BY FaultsAssumption, NoneAssumption DEF Honest, TypeOK, Holding, Statuses, PCs, Trying,
     Retention, Goto, Fault, queue, worker, report, google
<1>2. Links'
  BY DEF Honest, TypeOK, Links, Trying, Retention, Goto, queue, worker, report, google
<1>3. Posted' /\ SentWasMailed' /\ LinksOpen'
  BY DEF Honest, TypeOK, Posted, IsMailed, SentWasMailed, LinksOpen, Trying,
     Retention, Goto, queue, worker, report, google
<1> QED
  BY <1>1, <1>2, <1>3 DEF Honest

\* SENT is recorded after the mail only.
LEMMA RecordHonest == ASSUME Honest, NEW w \in Workers, Record(w) PROVE Honest'
<1>1. TypeOK' /\ Holding'
  BY FaultsAssumption, NoneAssumption DEF Honest, TypeOK, Holding, Statuses, PCs, Trying,
     Record, Write, Goto, Fault, queue, worker, report, google
<1>2. Links'
  BY DEF Honest, TypeOK, Links, Trying, Record, Write, Goto, queue, worker, report, google
<1>3. Posted' /\ SentWasMailed' /\ LinksOpen'
  BY DEF Honest, TypeOK, Posted, IsMailed, SentWasMailed, LinksOpen, Trying,
     Record, Write, Goto, queue, worker, report, google
<1> QED
  BY <1>1, <1>2, <1>3 DEF Honest

\* FAILED claims nothing.
LEMMA MarkFailedHonest == ASSUME Honest, NEW w \in Workers, MarkFailed(w) PROVE Honest'
<1>1. TypeOK' /\ Holding'
  BY FaultsAssumption, NoneAssumption DEF Honest, TypeOK, Holding, Statuses, PCs, Trying,
     MarkFailed, Write, Goto, Fault, queue, worker, report, google
<1>2. Links'
  BY DEF Honest, TypeOK, Links, Trying, MarkFailed, Write, Goto, queue, worker, report, google
<1>3. Posted' /\ SentWasMailed' /\ LinksOpen'
  BY DEF Honest, TypeOK, Posted, IsMailed, SentWasMailed, LinksOpen, Trying,
     MarkFailed, Write, Goto, queue, worker, report, google
<1> QED
  BY <1>1, <1>2, <1>3 DEF Honest

\* The uploaded file is the worker's own, not shared yet.
LEMMA UploadHonest == ASSUME Honest, NEW w \in Workers, Upload(w) PROVE Honest'
<1>1. task[w] \in Deliveries /\ large
  BY DEF Honest, TypeOK, Holding, Links, Upload
<1>2. /\ drive' \in Seq(File)
      /\ Len(drive') \in DOMAIN drive' /\ Len(drive') \in Nat
      /\ drive'[Len(drive')] = [for |-> task[w], shared |-> FALSE]
      /\ \A k \in DOMAIN drive : k \in DOMAIN drive' /\ drive'[k] = drive[k]
  BY <1>1, UploadGrows DEF Honest, Upload
<1>3. TypeOK' /\ Holding'
  BY <1>2 DEF Honest, TypeOK, Holding, PCs, Trying, Upload, Goto, queue, report
<1>4. Links'
  BY <1>1, <1>2 DEF Honest, TypeOK, Links, Upload, Goto, queue, report
<1>5. Posted' /\ SentWasMailed'
  BY DEF Honest, TypeOK, Posted, IsMailed, SentWasMailed, Upload, Goto
<1>6. LinksOpen'
  BY <1>2 DEF Honest, LinksOpen, Upload, report
<1> QED
  BY <1>3, <1>4, <1>5, <1>6 DEF Honest

\* The worker's file is open to everybody before its link is mailed.
LEMMA ShareHonest == ASSUME Honest, NEW w \in Workers, Share(w) PROVE Honest'
<1>1. link[w] \in DOMAIN drive /\ drive[link[w]].for = task[w] /\ large
  BY DEF Honest, Links, Share
<1>2. /\ drive' \in Seq(File)
      /\ DOMAIN drive' = DOMAIN drive
      /\ drive'[link[w]] = [for |-> drive[link[w]].for, shared |-> TRUE]
      /\ \A k \in DOMAIN drive : /\ drive'[k].for = drive[k].for
                                 /\ drive[k].shared => drive'[k] = drive[k]
  BY <1>1, ShareGrows DEF Honest, Share
<1>3. TypeOK' /\ Holding'
  BY <1>2 DEF Honest, TypeOK, Holding, PCs, Trying, Share, Goto, queue, report
<1>4. Links'
  <2>1. /\ pc' = [pc EXCEPT ![w] = "send"] /\ pc[w] = "share"
        /\ UNCHANGED <<task, link, large>>
    BY DEF Share, Goto, report
  <2>2. ASSUME NEW v \in Workers, pc[v] = "send", large
        PROVE  drive'[link[v]] = [for |-> task[v], shared |-> TRUE]
    <3>1. link[v] \in DOMAIN drive /\ drive[link[v]] = [for |-> task[v], shared |-> TRUE]
      BY <2>2 DEF Honest, Links
    <3>2. drive[link[v]].shared
      BY <3>1
    <3> QED
      BY <1>2, <3>1, <3>2
  <2> QED
    BY <1>1, <1>2, <2>1, <2>2 DEF Honest, TypeOK, Links
<1>5. Posted' /\ SentWasMailed'
  BY DEF Honest, TypeOK, Posted, IsMailed, SentWasMailed, Share, Goto
<1>6. LinksOpen'
  BY <1>1, <1>2 DEF Honest, LinksOpen, Share, report
<1> QED
  BY <1>3, <1>4, <1>5, <1>6 DEF Honest

\* The mail's link is the worker's own, shared file.
LEMMA SendHonest == ASSUME Honest, NEW w \in Workers, Send(w) PROVE Honest'
<1>1. /\ outbox' \in Seq(Mail)
      /\ DOMAIN outbox' = DOMAIN outbox \cup {Len(outbox) + 1}
      /\ outbox'[Len(outbox) + 1] = [for |-> task[w], link |-> link[w]]
      /\ \A k \in DOMAIN outbox : outbox'[k] = outbox[k]
  BY MailGrows DEF Honest, Send
<1>2. TypeOK' /\ Holding'
  BY <1>1 DEF Honest, TypeOK, Holding, PCs, Trying, Send, Goto, queue, report
<1>3. Links'
  BY DEF Honest, TypeOK, Links, Send, Goto, queue, report
<1>4. Posted' /\ SentWasMailed'
  <2>1. IsMailed(task[w])' /\ \A d \in Deliveries : IsMailed(d) => IsMailed(d)'
    BY <1>1 DEF IsMailed, Send
  <2>2. /\ UNCHANGED <<status, task>>
        /\ \A v \in Workers : pc'[v] = "sent" => pc[v] = "sent" \/ v = w
        /\ \A v \in Workers : pc[v] = "sent" => task[v] \in Deliveries
    BY DEF Honest, TypeOK, Holding, Send, Goto
  <2> QED
    BY <2>1, <2>2 DEF Honest, Posted, SentWasMailed, IsMailed
<1>5. LinksOpen'
  BY <1>1 DEF Honest, Links, LinksOpen, Send, report
<1> QED
  BY <1>2, <1>3, <1>4, <1>5 DEF Honest

\* Google did what it was asked, and the worker does not know.
LEMMA LostHonest == ASSUME Honest, NEW w \in Workers, Lost(w) PROVE Honest'
<1>1. pc[w] # "idle" /\ task[w] \in Deliveries
  BY DEF Honest, TypeOK, Holding, Lost
<1>2. /\ TypeOK' /\ Holding' /\ Links' /\ LinksOpen'
      /\ \A d \in Deliveries : IsMailed(d) => IsMailed(d)'
  <2>1. CASE pc[w] = "upload" /\ drive' = Uploaded(task[w]) /\ UNCHANGED outbox
    <3>1. /\ drive' \in Seq(File)
          /\ \A k \in DOMAIN drive : k \in DOMAIN drive' /\ drive'[k] = drive[k]
      BY <1>1, <2>1, UploadGrows DEF Honest
    <3>2. TypeOK' /\ Holding'
      BY <2>1, <3>1, FaultsAssumption
         DEF Honest, TypeOK, Holding, PCs, Trying, Lost, Fault, Goto, queue, report
    <3>3. Links' /\ LinksOpen'
      BY <2>1, <3>1 DEF Honest, TypeOK, Links, LinksOpen, Lost, Goto, report
    <3> QED
      BY <2>1, <3>2, <3>3 DEF IsMailed
  <2>2. CASE /\ pc[w] = "share" /\ drive' = [drive EXCEPT ![link[w]] = [for |-> @.for, shared |-> TRUE]]
             /\ UNCHANGED outbox
    <3>1. link[w] \in DOMAIN drive
      BY <2>2 DEF Honest, Links
    <3>2. /\ drive' \in Seq(File)
          /\ DOMAIN drive' = DOMAIN drive
          /\ drive'[link[w]] = [for |-> drive[link[w]].for, shared |-> TRUE]
          /\ \A k \in DOMAIN drive : /\ drive'[k].for = drive[k].for
                                     /\ drive[k].shared => drive'[k] = drive[k]
      BY <2>2, <3>1, ShareGrows DEF Honest
    <3>3. TypeOK' /\ Holding'
      BY <2>2, <3>2, FaultsAssumption
         DEF Honest, TypeOK, Holding, PCs, Trying, Lost, Fault, Goto, queue, report
    <3>4. Links' /\ LinksOpen'
      BY <2>2, <3>1, <3>2 DEF Honest, TypeOK, Links, LinksOpen, Lost, Goto, report
    <3> QED
      BY <2>2, <3>3, <3>4 DEF IsMailed
  <2>3. CASE pc[w] = "send" /\ outbox' = Mailed(w) /\ UNCHANGED drive
    <3>1. /\ outbox' \in Seq(Mail)
          /\ DOMAIN outbox' = DOMAIN outbox \cup {Len(outbox) + 1}
          /\ outbox'[Len(outbox) + 1] = [for |-> task[w], link |-> link[w]]
          /\ \A k \in DOMAIN outbox : outbox'[k] = outbox[k]
      BY <2>3, MailGrows DEF Honest
    <3>2. TypeOK' /\ Holding'
      <4>1. /\ pc' = [pc EXCEPT ![w] = "except"] /\ faults' \in 0..MaxFaults
            /\ UNCHANGED <<status, unqueued, broker, returns, task, loaded, token, link, session,
                           large, there, drive>>
        BY <2>3, FaultsAssumption DEF Honest, TypeOK, Lost, Fault, Goto, queue, report
      <4> QED
        BY <1>1, <3>1, <4>1 DEF Honest, TypeOK, Holding, PCs, Trying
    <3>3. Links' /\ LinksOpen'
      BY <2>3, <3>1 DEF Honest, TypeOK, Links, LinksOpen, Lost, Goto, report
    <3> QED
      BY <3>1, <3>2, <3>3 DEF IsMailed
  <2> QED
    BY <2>1, <2>2, <2>3 DEF Lost
<1>3. Posted' /\ SentWasMailed'
  <2>1. /\ UNCHANGED <<status, task>>
        /\ \A v \in Workers : pc'[v] = "sent" => pc[v] = "sent"
        /\ \A v \in Workers : pc[v] = "sent" => task[v] \in Deliveries
    BY DEF Honest, TypeOK, Holding, Lost, Goto
  <2> QED
    BY <1>2, <2>1 DEF Honest, Posted, SentWasMailed, IsMailed
<1> QED
  BY <1>2, <1>3 DEF Honest

\* In the beginning nothing is claimed and nothing mailed.
LEMMA InitHonest == Init => Honest
<1> SUFFICES ASSUME Init PROVE Honest
  OBVIOUS
<1>1. TypeOK /\ Holding
  BY FaultsAssumption, NoneAssumption, NoChunksType
     DEF Init, TypeOK, Holding, Statuses, PCs, Trying, File, Mail
<1>2. Links /\ Posted /\ SentWasMailed /\ LinksOpen
  BY DEF Init, Links, Posted, SentWasMailed, LinksOpen
<1> QED
  BY <1>1, <1>2 DEF Honest

\* No step, fault or not, makes the record of deliveries dishonest.
LEMMA StepHonest == ASSUME Honest, [Next]_vars PROVE Honest'
<1>1. CASE UNCHANGED vars
  BY <1>1 DEF Honest, TypeOK, Holding, Links, Posted, IsMailed, SentWasMailed, LinksOpen,
              vars, queue, worker, report, google
<1>2. ASSUME NEW d \in Deliveries, Request(d) \/ Enqueue(d) \/ EnqueueFails(d) PROVE Honest'
  BY <1>2, RequestHonest, QueueHonest
<1>3. ASSUME NEW w \in Workers, Take(w) \/ TaskStep(w) PROVE Honest'
  BY <1>3, DeliverHonest, AdvanceHonest, FailHonest, ChunkHonest, UploadHonest, ShareHonest, SendHonest,
     RecordHonest, MarkFailedHonest, EndHonest
     DEF Take, TaskStep
<1>4. ASSUME NEW w \in Workers, Misfortune(w) PROVE Honest'
  BY <1>4, TokenHonest, ChunkHonest, FailHonest, LostHonest, EndHonest, RedeliverHonest DEF Misfortune
<1> QED
  BY <1>1, <1>2, <1>3, <1>4, RetentionHonest DEF Next

\* The invariant holds whatever goes wrong.
THEOREM Honesty == Spec => []Honest
<1>1. Honest /\ [Next]_vars => Honest'
  BY StepHonest
<1> QED
  BY <1>1, InitHonest, PTL DEF Spec

\* Rows, messages, files and mails hold only what the code puts there.
THEOREM TypeCorrect == Spec => []TypeOK
BY Honesty, PTL DEF Honest

\* SENT is never recorded for a mail that the provider did not accept.
THEOREM SentIsMailed == Spec => []SentWasMailed
BY Honesty, PTL DEF Honest

\* Every mailed link is to a shared file uploaded for that delivery.
THEOREM LinksAreOpen == Spec => []LinksOpen
BY Honesty, PTL DEF Honest

-----------------------------------------------------------------------------
(* Accounting: who may still mail a delivery or decide on it.              *)

\* Where a worker may still decide.
Deciding == Trying \cup {"sent", "except"}

At(d, places) == {w \in Workers : task[w] = d /\ pc[w] \in places}
Busy(d, places) == Cardinality(At(d, places))

\* The messages of d that nobody holds.
Waiting(d) == (IF d \in unqueued THEN 1 ELSE 0) + broker[d]

Decided(d) == IF status[d] \in {"SENT", "FAILED"} THEN 1 ELSE 0

\* The first message and those that came back each buy one mail and one verdict.
Account ==
    \A d \in Deliveries :
        /\ Waiting(d) + Busy(d, Trying) + Mails[d] <= 1 + returns[d]
        /\ Waiting(d) + Busy(d, Deciding) + Decided(d) <= 1 + returns[d]
        /\ status[d] = "absent" =>
               /\ Waiting(d) = 0 /\ Mails[d] = 0 /\ returns[d] = 0
               /\ \A w \in Workers : task[w] # d

LEMMA BusyNat ==
    ASSUME NEW d, NEW places
    PROVE  /\ IsFiniteSet(At(d, places)) /\ Busy(d, places) \in Nat
           /\ \A w \in At(d, places) : Busy(d, places) >= 1
<1>1. At(d, places) \in SUBSET Workers
  BY DEF At
<1>2. IsFiniteSet(At(d, places))
  BY <1>1, WorkersAssumption, FS_Subset
<1> QED
  BY <1>2, FS_CardinalityType, FS_EmptySet DEF Busy

\* A step of one worker changes what it counts for, and nothing else.
LEMMA OneWorkerMoves ==
    ASSUME NEW w \in Workers, NEW d, NEW places,
           \A v \in Workers \ {w} : pc'[v] = pc[v] /\ task'[v] = task[v]
    PROVE  /\ Busy(d, places)' \in Nat
           /\ Busy(d, places)' =
                  Busy(d, places) - (IF task[w] = d /\ pc[w] \in places THEN 1 ELSE 0)
                                  + (IF task'[w] = d /\ pc'[w] \in places THEN 1 ELSE 0)
<1>1. At(d, places)' \in SUBSET Workers
  BY DEF At
<1>2. IsFiniteSet(At(d, places)')
  BY <1>1, WorkersAssumption, FS_Subset
<1> DEFINE rest == At(d, places) \ {w}
<1>3. At(d, places)' \ {w} = rest /\ IsFiniteSet(rest) /\ Cardinality(rest) \in Nat
  <2>1. At(d, places)' \ {w} = rest
    BY DEF At
  <2>2. IsFiniteSet(rest)
    BY BusyNat, FS_RemoveElement
  <2> QED
    BY <2>1, <2>2, FS_CardinalityType
<1>4. Busy(d, places) =
        Cardinality(rest) + (IF task[w] = d /\ pc[w] \in places THEN 1 ELSE 0)
  <2>1. CASE w \in At(d, places)
    <3>1. At(d, places) = rest \cup {w} /\ w \notin rest
      BY <2>1
    <3>2. Cardinality(rest \cup {w}) = Cardinality(rest) + 1
      BY <1>3, <3>1, FS_AddElement
    <3> QED
      BY <2>1, <3>1, <3>2 DEF Busy, At
  <2>2. CASE w \notin At(d, places)
    <3>1. At(d, places) = rest
      BY <2>2
    <3>2. ~(task[w] = d /\ pc[w] \in places)
      BY <2>2 DEF At
    <3> HIDE DEF rest
    <3> QED
      BY <1>3, <3>1, <3>2 DEF Busy
  <2> QED
    BY <2>1, <2>2
<1>5. Busy(d, places)' =
        Cardinality(rest) + (IF task'[w] = d /\ pc'[w] \in places THEN 1 ELSE 0)
  <2>1. CASE w \in At(d, places)'
    <3>1. At(d, places)' = rest \cup {w} /\ w \notin rest
      BY <1>3, <2>1
    <3>2. Cardinality(rest \cup {w}) = Cardinality(rest) + 1
      BY <1>3, <3>1, FS_AddElement
    <3> QED
      BY <2>1, <3>1, <3>2 DEF Busy, At
  <2>2. CASE w \notin At(d, places)'
    <3>1. At(d, places)' = rest
      BY <1>3, <2>2
    <3>2. ~(task'[w] = d /\ pc'[w] \in places)
      BY <2>2 DEF At
    <3> HIDE DEF rest
    <3> QED
      BY <1>3, <3>1, <3>2 DEF Busy
  <2> QED
    BY <2>1, <2>2
<1> HIDE DEF rest, Busy
<1> QED
  BY <1>3, <1>4, <1>5

\* The same, for a worker whose delivery and place are what they were.
LEMMA NobodyMoves ==
    ASSUME UNCHANGED <<pc, task>>, NEW d, NEW places
    PROVE  Busy(d, places)' = Busy(d, places)
BY DEF Busy, At

\* How often a delivery was mailed.
LEMMA MailsNat == ASSUME TypeOK PROVE Mails \in [Deliveries -> Nat]
<1> SUFFICES ASSUME NEW d \in Deliveries
             PROVE  Cardinality({i \in DOMAIN outbox : outbox[i].for = d}) \in Nat
  BY DEF Mails
<1>1. DOMAIN outbox = 1..Len(outbox) /\ Len(outbox) \in Nat
  BY DEF TypeOK
<1>2. IsFiniteSet(DOMAIN outbox)
  BY <1>1, FS_Interval
<1> QED
  BY <1>2, FS_Subset, FS_CardinalityType

LEMMA SameMails == UNCHANGED outbox => UNCHANGED Mails
BY DEF Mails

LEMMA SomeMail == ASSUME TypeOK, NEW d \in Deliveries, IsMailed(d) PROVE Mails[d] > 0
<1> DEFINE Those == {i \in DOMAIN outbox : outbox[i].for = d}
<1>1. DOMAIN outbox = 1..Len(outbox) /\ Len(outbox) \in Nat
  BY DEF TypeOK
<1>2. IsFiniteSet(DOMAIN outbox) /\ Those \in SUBSET (DOMAIN outbox)
  BY <1>1, FS_Interval
<1>3. IsFiniteSet(Those) /\ Those # {}
  BY <1>2, FS_Subset DEF IsMailed
<1>4. Cardinality(Those) \in Nat /\ Cardinality(Those) # 0
  BY <1>3, FS_CardinalityType, FS_EmptySet
<1> QED
  BY <1>4 DEF Mails

\* One more mail is one more for its delivery.
LEMMA MailsGrow ==
    ASSUME TypeOK, Holding, NEW w \in Workers, pc[w] # "idle", outbox' = Mailed(w)
    PROVE  Mails' = [Mails EXCEPT ![task[w]] = @ + 1]
<1>1. /\ DOMAIN outbox' = DOMAIN outbox \cup {Len(outbox) + 1}
      /\ Len(outbox) + 1 \notin DOMAIN outbox
      /\ outbox'[Len(outbox) + 1] = [for |-> task[w], link |-> link[w]]
      /\ \A k \in DOMAIN outbox : outbox'[k] = outbox[k]
  BY MailGrows
<1>2. task[w] \in Deliveries
  BY DEF TypeOK, Holding
<1> DEFINE Those(d) == {i \in DOMAIN outbox : outbox[i].for = d}
           Next1(d) == {i \in DOMAIN outbox' : outbox'[i].for = d}
<1>3. IsFiniteSet(DOMAIN outbox)
  <2>1. DOMAIN outbox = 1..Len(outbox) /\ Len(outbox) \in Nat
    BY DEF TypeOK
  <2> QED
    BY <2>1, FS_Interval
<1>4. ASSUME NEW d \in Deliveries, d # task[w] PROVE Next1(d) = Those(d)
  BY <1>1, <1>4
<1>5. Next1(task[w]) = Those(task[w]) \cup {Len(outbox) + 1}
  BY <1>1
<1>6. Cardinality(Next1(task[w])) = Cardinality(Those(task[w])) + 1
  <2>1. IsFiniteSet(Those(task[w])) /\ Len(outbox) + 1 \notin Those(task[w])
    BY <1>1, <1>3, FS_Subset
  <2> HIDE DEF Those, Next1
  <2> QED
    BY <1>5, <2>1, FS_AddElement
<1>7. /\ Mails = [d \in Deliveries |-> Cardinality(Those(d))]
      /\ Mails' = [d \in Deliveries |-> Cardinality(Next1(d))]
  BY DEF Mails
<1> HIDE DEF Those, Next1
<1> QED
  BY <1>2, <1>4, <1>6, <1>7

\* Whoever may still mail or decide is paid for.
LEMMA Covered ==
    ASSUME Honest, Account, NEW w \in Workers, pc[w] \in Deciding
    PROVE  /\ task[w] \in Deliveries /\ status[task[w]] # "absent"
           /\ status[task[w]] = "PENDING" \/ returns[task[w]] > 0
           /\ pc[w] \in Trying => Mails[task[w]] <= returns[task[w]]
<1> DEFINE d == task[w]
<1>1. /\ d \in Deliveries /\ status \in [Deliveries -> Statuses]
      /\ returns[d] \in Nat /\ Waiting(d) \in Nat
  BY DEF Honest, TypeOK, Holding, Deciding, Trying, Waiting
<1>2. /\ Busy(d, Deciding) \in Nat /\ Busy(d, Deciding) >= 1
      /\ Busy(d, Trying) \in Nat /\ (pc[w] \in Trying => Busy(d, Trying) >= 1)
  BY BusyNat DEF At
<1>3. Mails[d] \in Nat /\ Decided(d) \in {0, 1}
  BY <1>1, MailsNat DEF Honest, Decided
<1>4. status[d] # "absent"
  BY <1>1 DEF Account
<1>5. /\ Waiting(d) + Busy(d, Trying) + Mails[d] <= 1 + returns[d]
      /\ Waiting(d) + Busy(d, Deciding) + Decided(d) <= 1 + returns[d]
  BY <1>1 DEF Account
<1>6. Decided(d) = 0 => status[d] = "PENDING"
  BY <1>1, <1>4 DEF Decided, Statuses
<1> QED
  BY <1>1, <1>2, <1>3, <1>4, <1>5, <1>6

-----------------------------------------------------------------------------
(* The accounts are kept.                                                   *)

\* A worker goes on, lets go, or loses its message to the queue.
LEMMA WorkerKeepsAccount ==
    ASSUME Honest, Account, NEW w \in Workers, UNCHANGED <<status, unqueued, outbox>>,
           \A v \in Workers \ {w} : pc'[v] = pc[v] /\ task'[v] = task[v],
           task'[w] = task[w] \/ (task'[w] = None /\ pc'[w] = "idle"),
           pc'[w] \in Trying => pc[w] \in Trying,
           pc'[w] \in Deciding => pc[w] \in Deciding,
           UNCHANGED <<broker, returns>> \/ (task[w] \in Deliveries /\ Return(task[w]))
    PROVE  Account'
<1> SUFFICES ASSUME NEW d \in Deliveries
             PROVE  /\ Waiting(d)' + Busy(d, Trying)' + Mails'[d] <= 1 + returns'[d]
                    /\ Waiting(d)' + Busy(d, Deciding)' + Decided(d)' <= 1 + returns'[d]
                    /\ status[d] = "absent" =>
                           /\ Waiting(d)' = 0 /\ Mails'[d] = 0 /\ returns'[d] = 0
                           /\ \A v \in Workers : task'[v] # d
  BY DEF Account
<1>1. /\ Busy(d, Trying)' \in Nat /\ Busy(d, Trying) \in Nat /\ Busy(d, Trying)' <= Busy(d, Trying)
      /\ Busy(d, Deciding)' \in Nat /\ Busy(d, Deciding) \in Nat
      /\ Busy(d, Deciding)' <= Busy(d, Deciding)
  <2>1. "idle" \notin Trying /\ "idle" \notin Deciding
    BY DEF Trying, Deciding
  <2> QED
    BY <2>1, BusyNat, OneWorkerMoves
<1>2. Mails'[d] = Mails[d] /\ Mails[d] \in Nat /\ Decided(d)' = Decided(d) /\ Decided(d) \in {0, 1}
  BY SameMails, MailsNat DEF Honest, Decided
<1>3. \E k \in {0, 1} : /\ Waiting(d)' = Waiting(d) + k /\ returns'[d] = returns[d] + k
                        /\ task[w] # d => k = 0
  BY DEF Honest, TypeOK, Waiting, Return
<1>4. Waiting(d) \in Nat /\ returns[d] \in Nat
  BY DEF Honest, TypeOK, Waiting
<1>5. /\ Waiting(d) + Busy(d, Trying) + Mails[d] <= 1 + returns[d]
      /\ Waiting(d) + Busy(d, Deciding) + Decided(d) <= 1 + returns[d]
      /\ status[d] = "absent" =>
             Waiting(d) = 0 /\ Mails[d] = 0 /\ returns[d] = 0 /\ \A v \in Workers : task[v] # d
  BY DEF Account
<1>6. status[d] = "absent" => \A v \in Workers : task'[v] # d
  BY <1>5, NoneAssumption
<1> QED
  BY <1>1, <1>2, <1>3, <1>4, <1>5, <1>6

\* The message moves from the queue to a worker.
LEMMA DeliverKeepsAccount ==
    ASSUME Honest, Account, NEW w \in Workers, NEW e \in Deliveries, Deliver(w, e)
    PROVE  Account'
<1> SUFFICES ASSUME NEW d \in Deliveries
             PROVE  /\ Waiting(d)' + Busy(d, Trying)' + Mails'[d] <= 1 + returns'[d]
                    /\ Waiting(d)' + Busy(d, Deciding)' + Decided(d)' <= 1 + returns'[d]
                    /\ status'[d] = "absent" =>
                           /\ Waiting(d)' = 0 /\ Mails'[d] = 0 /\ returns'[d] = 0
                           /\ \A v \in Workers : task'[v] # d
  BY DEF Account
<1>1. /\ UNCHANGED <<status, unqueued, returns, outbox>> /\ broker[e] > 0
      /\ broker' = [broker EXCEPT ![e] = @ - 1] /\ broker \in [Deliveries -> Nat]
      /\ pc[w] = "idle" /\ pc'[w] = "begin" /\ task'[w] = e
      /\ \A v \in Workers \ {w} : pc'[v] = pc[v] /\ task'[v] = task[v]
  BY DEF Honest, TypeOK, Deliver, Goto, google
<1>2. /\ "idle" \notin Trying /\ "idle" \notin Deciding
      /\ "begin" \in Trying /\ "begin" \in Deciding
  BY DEF Trying, Deciding
<1>3. /\ Busy(d, Trying) \in Nat
      /\ Busy(d, Trying)' = Busy(d, Trying) + (IF d = e THEN 1 ELSE 0)
      /\ Busy(d, Deciding) \in Nat
      /\ Busy(d, Deciding)' = Busy(d, Deciding) + (IF d = e THEN 1 ELSE 0)
  BY <1>1, <1>2, BusyNat, OneWorkerMoves
<1>4. Mails'[d] = Mails[d] /\ Mails[d] \in Nat /\ Decided(d)' = Decided(d) /\ Decided(d) \in {0, 1}
  BY <1>1, SameMails, MailsNat DEF Honest, Decided
<1>5. /\ Waiting(d)' = Waiting(d) - (IF d = e THEN 1 ELSE 0)
      /\ Waiting(d) \in Nat /\ returns[d] \in Nat /\ (d = e => Waiting(d) > 0)
  BY <1>1 DEF Honest, TypeOK, Waiting
<1>6. /\ Waiting(d) + Busy(d, Trying) + Mails[d] <= 1 + returns[d]
      /\ Waiting(d) + Busy(d, Deciding) + Decided(d) <= 1 + returns[d]
      /\ status[d] = "absent" =>
             Waiting(d) = 0 /\ Mails[d] = 0 /\ returns[d] = 0 /\ \A v \in Workers : task[v] # d
  BY DEF Account
<1>7. status[d] = "absent" => d # e
  BY <1>5, <1>6
<1>8. status[d] = "absent" => \A v \in Workers : task'[v] # d
  BY <1>1, <1>6, <1>7
<1> QED
  BY <1>1, <1>3, <1>4, <1>5, <1>6, <1>7, <1>8

\* A new request has one message to send; sending it, or not, adds none.
LEMMA ApiKeepsAccount ==
    ASSUME Honest, Account, NEW e \in Deliveries, Request(e) \/ Enqueue(e) \/ EnqueueFails(e)
    PROVE  Account'
<1> SUFFICES ASSUME NEW d \in Deliveries
             PROVE  /\ Waiting(d)' + Busy(d, Trying)' + Mails'[d] <= 1 + returns'[d]
                    /\ Waiting(d)' + Busy(d, Deciding)' + Decided(d)' <= 1 + returns'[d]
                    /\ status'[d] = "absent" =>
                           /\ Waiting(d)' = 0 /\ Mails'[d] = 0 /\ returns'[d] = 0
                           /\ \A v \in Workers : task'[v] # d
  BY DEF Account
<1>1. UNCHANGED <<returns, pc, task, outbox>>
  BY DEF Request, Enqueue, EnqueueFails, worker, google
<1>2. /\ Busy(d, Trying) \in Nat /\ Busy(d, Trying)' = Busy(d, Trying)
      /\ Busy(d, Deciding) \in Nat /\ Busy(d, Deciding)' = Busy(d, Deciding)
  BY <1>1, BusyNat, NobodyMoves
<1>3. Mails'[d] = Mails[d] /\ Mails[d] \in Nat
  BY <1>1, SameMails, MailsNat DEF Honest
<1>4. /\ broker \in [Deliveries -> Nat] /\ status \in [Deliveries -> Statuses]
      /\ returns[d] \in Nat
  BY DEF Honest, TypeOK
<1>5. /\ Waiting(d) + Busy(d, Trying) + Mails[d] <= 1 + returns[d]
      /\ Waiting(d) + Busy(d, Deciding) + Decided(d) <= 1 + returns[d]
      /\ status[d] = "absent" =>
             Waiting(d) = 0 /\ Mails[d] = 0 /\ returns[d] = 0 /\ \A v \in Workers : task[v] # d
  BY DEF Account
<1>6. CASE Request(e) /\ d = e
  <2>1. status[d] = "absent" /\ status'[d] = "PENDING" /\ d \in unqueued' /\ broker' = broker
    BY <1>4, <1>6 DEF Request
  <2>2. Busy(d, Trying) = 0 /\ Busy(d, Deciding) = 0
    <3>1. At(d, Trying) = {} /\ At(d, Deciding) = {}
      BY <1>5, <2>1 DEF At
    <3> QED
      BY <3>1, FS_EmptySet DEF Busy
  <2>3. Waiting(d)' = 1 /\ Decided(d)' = 0
    BY <1>4, <1>5, <2>1 DEF Waiting, Decided
  <2> QED
    BY <1>1, <1>2, <1>3, <1>5, <2>1, <2>2, <2>3
<1>7. CASE ~(Request(e) /\ d = e)
  <2>1. /\ status'[d] = status[d]
        /\ Waiting(d)' \in Nat /\ Waiting(d) \in Nat /\ Waiting(d)' <= Waiting(d)
    BY <1>4, <1>7 DEF Request, Enqueue, EnqueueFails, Waiting
  <2>2. Decided(d)' = Decided(d) /\ Decided(d) \in {0, 1}
    BY <2>1 DEF Decided
  <2> QED
    BY <1>1, <1>2, <1>3, <1>4, <1>5, <2>1, <2>2
<1> QED
  BY <1>6, <1>7

\* A mail takes the place of the worker that was going to send it.
LEMMA MailKeepsAccount ==
    ASSUME Honest, Account, NEW w \in Workers, Send(w) \/ Lost(w), outbox' = Mailed(w), pc[w] = "send"
    PROVE  Account'
<1> SUFFICES ASSUME NEW d \in Deliveries
             PROVE  /\ Waiting(d)' + Busy(d, Trying)' + Mails'[d] <= 1 + returns'[d]
                    /\ Waiting(d)' + Busy(d, Deciding)' + Decided(d)' <= 1 + returns'[d]
                    /\ status'[d] = "absent" =>
                           /\ Waiting(d)' = 0 /\ Mails'[d] = 0 /\ returns'[d] = 0
                           /\ \A v \in Workers : task'[v] # d
  BY DEF Account
<1>1. /\ UNCHANGED <<status, unqueued, broker, returns, task>>
      /\ pc'[w] \in {"sent", "except"}
      /\ \A v \in Workers \ {w} : pc'[v] = pc[v]
      /\ task[w] \in Deliveries
  BY DEF Honest, TypeOK, Holding, Send, Lost, Goto, queue
<1>2. /\ pc[w] \in Trying /\ pc[w] \in Deciding /\ pc'[w] \in Deciding /\ pc'[w] \notin Trying
  BY <1>1 DEF Trying, Deciding
<1>3. /\ Busy(d, Trying) \in Nat
      /\ Busy(d, Trying)' = Busy(d, Trying) - (IF d = task[w] THEN 1 ELSE 0)
      /\ Busy(d, Deciding) \in Nat /\ Busy(d, Deciding)' = Busy(d, Deciding)
  BY <1>1, <1>2, BusyNat, OneWorkerMoves
<1>4. Mails[d] \in Nat /\ Mails'[d] = Mails[d] + (IF d = task[w] THEN 1 ELSE 0)
  <2>1. Mails' = [Mails EXCEPT ![task[w]] = @ + 1]
    BY MailsGrow DEF Honest
  <2>2. Mails \in [Deliveries -> Nat]
    BY MailsNat DEF Honest
  <2> QED
    BY <2>1, <2>2
<1>5. /\ Waiting(d)' = Waiting(d) /\ Waiting(d) \in Nat /\ returns[d] \in Nat
      /\ Decided(d)' = Decided(d)
  BY <1>1 DEF Honest, TypeOK, Waiting, Decided
<1>6. /\ Waiting(d) + Busy(d, Trying) + Mails[d] <= 1 + returns[d]
      /\ Waiting(d) + Busy(d, Deciding) + Decided(d) <= 1 + returns[d]
      /\ status[d] = "absent" =>
             Waiting(d) = 0 /\ Mails[d] = 0 /\ returns[d] = 0 /\ \A v \in Workers : task[v] # d
  BY DEF Account
<1> QED
  BY <1>1, <1>3, <1>4, <1>5, <1>6

\* A verdict takes the place of the worker that was going to give it.
LEMMA VerdictKeepsAccount ==
    ASSUME Honest, Account, NEW w \in Workers, Record(w) \/ MarkFailed(w)
    PROVE  Account'
<1> SUFFICES ASSUME NEW d \in Deliveries
             PROVE  /\ Waiting(d)' + Busy(d, Trying)' + Mails'[d] <= 1 + returns'[d]
                    /\ Waiting(d)' + Busy(d, Deciding)' + Decided(d)' <= 1 + returns'[d]
                    /\ status'[d] = "absent" =>
                           /\ Waiting(d)' = 0 /\ Mails'[d] = 0 /\ returns'[d] = 0
                           /\ \A v \in Workers : task'[v] # d
  BY DEF Account
<1>1. /\ UNCHANGED <<unqueued, broker, returns, task, outbox>>
      /\ pc[w] \in {"sent", "except"} /\ pc'[w] = "done"
      /\ \A v \in Workers \ {w} : pc'[v] = pc[v]
      /\ task[w] \in Deliveries /\ status \in [Deliveries -> Statuses]
  BY DEF Honest, TypeOK, Holding, Record, MarkFailed, Goto, queue, google
<1>2. /\ pc[w] \notin Trying /\ pc[w] \in Deciding /\ pc'[w] \notin Deciding /\ pc'[w] \notin Trying
  BY <1>1 DEF Trying, Deciding
<1>3. /\ Busy(d, Trying) \in Nat /\ Busy(d, Trying)' = Busy(d, Trying)
      /\ Busy(d, Deciding) \in Nat
      /\ Busy(d, Deciding)' = Busy(d, Deciding) - (IF d = task[w] THEN 1 ELSE 0)
  BY <1>1, <1>2, BusyNat, OneWorkerMoves
<1>4. Mails'[d] = Mails[d] /\ Mails[d] \in Nat
  BY <1>1, SameMails, MailsNat DEF Honest
<1>5. /\ Waiting(d)' = Waiting(d) /\ Waiting(d) \in Nat /\ returns[d] \in Nat
      /\ Decided(d) \in {0, 1} /\ Decided(d)' \in {0, 1}
  BY <1>1 DEF Honest, TypeOK, Waiting, Decided
<1>6. /\ Waiting(d) + Busy(d, Trying) + Mails[d] <= 1 + returns[d]
      /\ Waiting(d) + Busy(d, Deciding) + Decided(d) <= 1 + returns[d]
      /\ status[d] = "absent" =>
             Waiting(d) = 0 /\ Mails[d] = 0 /\ returns[d] = 0 /\ \A v \in Workers : task[v] # d
  BY DEF Account
<1>7. d # task[w] => status'[d] = status[d] /\ Decided(d)' = Decided(d)
  BY <1>1 DEF Record, MarkFailed, Write, Decided
<1>8. status'[d] = "absent" => status[d] = "absent"
  BY <1>1 DEF Record, MarkFailed, Write
<1> QED
  BY <1>1, <1>3, <1>4, <1>5, <1>6, <1>7, <1>8

\* A step either leaves the outbox alone or mails the worker's delivery.
LEMMA OutboxSteps ==
    ASSUME Next
    PROVE  \/ UNCHANGED outbox
           \/ \E w \in Workers : (Send(w) \/ Lost(w)) /\ outbox' = Mailed(w) /\ pc[w] = "send"
BY DEF Next, Request, Enqueue, EnqueueFails, Take, Deliver, TaskStep, Attach, DriveInit,
       OpenReport, ReportGone, PutChunk, ChunkDropped, ChunkAstray, NoFile, Upload, Share,
       ShareDenied, Send, Record, MarkFailed, Ack,
       Misfortune, TokenExpires, Lost, Raise, RaiseLate, Disabled, Escape, Crash, Kill,
       Redeliver, Retention, google

\* The steps of a worker that neither mail, nor decide, nor take a message.
LEMMA QuietSteps ==
    ASSUME Honest, NEW w \in Workers, UNCHANGED outbox,
           \/ Attach(w) \/ DriveInit(w) \/ OpenReport(w) \/ ReportGone(w) \/ PutChunk(w)
           \/ ChunkAstray(w) \/ NoFile(w) \/ Upload(w) \/ Share(w) \/ ShareDenied(w) \/ Ack(w)
           \/ Misfortune(w)
    PROVE  /\ UNCHANGED <<status, unqueued>>
           /\ \A v \in Workers \ {w} : pc'[v] = pc[v] /\ task'[v] = task[v]
           /\ task'[w] = task[w] \/ (task'[w] = None /\ pc'[w] = "idle")
           /\ pc'[w] \in Trying => pc[w] \in Trying
           /\ pc'[w] \in Deciding => pc[w] \in Deciding
           /\ \/ UNCHANGED <<broker, returns>>
              \/ Crash(w) \/ Redeliver(w)
<1>0. pc \in [Workers -> PCs] /\ task \in [Workers -> Deliveries \cup {None}]
  BY DEF Honest, TypeOK
<1>1. CASE Ack(w) \/ Crash(w) \/ Kill(w)
  BY <1>0, <1>1 DEF Ack, Crash, Kill, Release, Trying, Deciding, queue
<1>2. CASE Redeliver(w) \/ TokenExpires(w)
  BY <1>2 DEF Redeliver, TokenExpires, worker, queue
<1>3. CASE \/ Attach(w) \/ DriveInit(w) \/ OpenReport(w) \/ ReportGone(w) \/ PutChunk(w)
           \/ ChunkAstray(w) \/ NoFile(w) \/ Upload(w) \/ Share(w) \/ ShareDenied(w)
           \/ ChunkDropped(w) \/ Lost(w) \/ Raise(w) \/ RaiseLate(w) \/ Disabled(w) \/ Escape(w)
  <2>1. UNCHANGED <<status, unqueued, broker, returns, task>>
    BY <1>3 DEF Attach, DriveInit, OpenReport, ReportGone, PutChunk, ChunkAstray, NoFile, Upload,
       Share, ShareDenied, ChunkDropped, Lost, Raise, RaiseLate, Disabled, Escape, queue
  <2>2. \/ pc' = pc
        \/ /\ pc[w] \in Trying
           /\ \E label \in {"open", "upload", "share", "send", "except", "done"} : Goto(w, label)
        \/ /\ pc[w] \in Deciding
           /\ \E label \in {"except", "done"} : Goto(w, label)
    BY <1>3 DEF Attach, DriveInit, OpenReport, ReportGone, PutChunk, ChunkAstray, NoFile, Upload,
       Share, ShareDenied, ChunkDropped, Lost, Raise, RaiseLate, Disabled, Escape, Trying, Deciding
  <2> QED
    BY <1>0, <2>1, <2>2 DEF Goto, Trying, Deciding
<1> QED
  BY <1>1, <1>2, <1>3 DEF Misfortune

\* No step overdraws the accounts.
LEMMA StepAccount == ASSUME Honest, Account, [Next]_vars PROVE Account'
<1>1. CASE UNCHANGED <<status, unqueued, broker, returns, pc, task, outbox>>
  BY <1>1, NobodyMoves, SameMails DEF Account, Waiting, Decided
<1>2. ASSUME NEW w \in Workers, UNCHANGED outbox,
             \/ Attach(w) \/ DriveInit(w) \/ OpenReport(w) \/ ReportGone(w) \/ PutChunk(w)
             \/ ChunkAstray(w) \/ NoFile(w) \/ Upload(w) \/ Share(w) \/ ShareDenied(w) \/ Ack(w)
             \/ Misfortune(w)
      PROVE  Account'
  <2>1. Crash(w) \/ Redeliver(w) => task[w] \in Deliveries /\ Return(task[w])
    BY DEF Honest, TypeOK, Holding, Crash, Redeliver
  <2> QED
    BY <1>2, <2>1, QuietSteps, WorkerKeepsAccount
<1>3. CASE Next /\ ~UNCHANGED outbox
  BY <1>3, OutboxSteps, MailKeepsAccount
<1>4. ASSUME NEW w \in Workers, Send(w), UNCHANGED outbox PROVE FALSE
  <2>1. pc[w] # "idle"
    BY <1>4 DEF Send
  <2>2. DOMAIN outbox' # DOMAIN outbox
    BY <1>4, <2>1, MailGrows DEF Honest, Send
  <2> QED
    BY <1>4, <2>2
<1>5. CASE Next /\ UNCHANGED outbox
  BY <1>1, <1>2, <1>4, <1>5, DeliverKeepsAccount, ApiKeepsAccount, VerdictKeepsAccount
     DEF Next, Take, TaskStep, Retention, queue, worker, google
<1> QED
  BY <1>1, <1>3, <1>5 DEF vars, queue, worker, google

LEMMA InitAccount == Init => Account
<1> SUFFICES ASSUME Init, NEW d \in Deliveries
             PROVE  /\ Waiting(d) = 0 /\ Decided(d) = 0 /\ returns[d] = 0
                    /\ Mails[d] = 0 /\ Busy(d, Trying) = 0 /\ Busy(d, Deciding) = 0
                    /\ \A w \in Workers : task[w] # d
  BY DEF Account
<1>1. At(d, Trying) = {} /\ At(d, Deciding) = {} /\ {i \in DOMAIN outbox : outbox[i].for = d} = {}
  BY NoneAssumption DEF Init, At
<1>2. Busy(d, Trying) = 0 /\ Busy(d, Deciding) = 0 /\ Mails[d] = 0
  BY <1>1, FS_EmptySet DEF Busy, Mails
<1> QED
  BY <1>2, NoneAssumption DEF Init, Waiting, Decided

\* Whatever crashes and whatever is redelivered: a request is mailed at most once
\* for its first message and once for each time a message of it came back.
MailsAreCounted == \A d \in Deliveries : Mails[d] <= 1 + returns[d]

LEMMA Accounting == Spec => [](Honest /\ Account)
<1>1. Honest /\ Account /\ [Next]_vars => Account'
  BY StepAccount
<1> QED
  BY <1>1, InitAccount, Honesty, PTL DEF Spec

THEOREM OneMailPerMessage == Spec => []MailsAreCounted
<1>1. Honest /\ Account => MailsAreCounted
  <2> SUFFICES ASSUME Honest, Account, NEW d \in Deliveries PROVE Mails[d] <= 1 + returns[d]
    BY DEF MailsAreCounted
  <2>1. Waiting(d) \in Nat /\ Busy(d, Trying) \in Nat /\ Mails[d] \in Nat /\ returns[d] \in Nat
    BY BusyNat, MailsNat DEF Honest, TypeOK, Waiting
  <2> QED
    BY <2>1 DEF Account
<1> QED
  BY <1>1, Accounting, PTL

-----------------------------------------------------------------------------
(* The row and the outbox together, against the abstract DeliveryLifecycle. *)

\* A mail goes out for a request that is undecided, within what its messages buy.
LEMMA SendImplements ==
    ASSUME Honest, Account, NEW w \in Workers, Send(w) \/ Lost(w), outbox' = Mailed(w), pc[w] = "send"
    PROVE  Lifecycle!Next
<1>1. pc[w] \in Trying /\ pc[w] \in Deciding /\ UNCHANGED <<status, returns>>
  BY DEF Trying, Deciding, Send, Lost, queue
<1>2. Mails' = [Mails EXCEPT ![task[w]] = @ + 1]
  BY MailsGrow DEF Honest
<1>3. task[w] \in Deliveries /\ Lifecycle!Mail(task[w])
  BY <1>1, <1>2, Covered DEF Lifecycle!Mail, Lifecycle!Undecided
<1> QED
  BY <1>3 DEF Lifecycle!Next

\* The verdict: SENT by the worker that mailed, FAILED in the handler.
LEMMA VerdictImplements ==
    ASSUME Honest, Account, NEW w \in Workers, Record(w) \/ MarkFailed(w)
    PROVE  [Lifecycle!Next]_(Lifecycle!vars)
<1>1. /\ pc[w] \in Deciding /\ status \in [Deliveries -> Statuses]
      /\ pc[w] = "sent" => IsMailed(task[w])
  BY DEF Honest, TypeOK, Posted, Deciding, Record, MarkFailed
<1>2. UNCHANGED Mails /\ UNCHANGED returns
  BY SameMails DEF Record, MarkFailed, google, queue
<1>3. task[w] \in Deliveries /\ Lifecycle!Undecided(task[w])
  BY <1>1, Covered DEF Lifecycle!Undecided
<1>4. CASE UNCHANGED status
  BY <1>2, <1>4 DEF Lifecycle!vars
<1>5. CASE Record(w) /\ ~UNCHANGED status
  <2>1. status' = [status EXCEPT ![task[w]] = "SENT"] /\ pc[w] = "sent"
    BY <1>1, <1>3, <1>5 DEF Record, Write
  <2>2. Mails[task[w]] > 0
    BY <1>1, <1>3, <2>1, SomeMail DEF Honest
  <2>3. Lifecycle!Succeed(task[w])
    BY <1>2, <1>3, <2>1, <2>2 DEF Lifecycle!Succeed
  <2> QED
    BY <1>3, <2>3 DEF Lifecycle!Next
<1>6. CASE MarkFailed(w) /\ ~UNCHANGED status
  <2>1. status' = [status EXCEPT ![task[w]] = "FAILED"]
    BY <1>1, <1>3, <1>6 DEF MarkFailed, Write
  <2>2. Lifecycle!Fail(task[w])
    BY <1>2, <1>3, <2>1 DEF Lifecycle!Fail
  <2> QED
    BY <1>3, <2>2 DEF Lifecycle!Next
<1> QED
  BY <1>4, <1>5, <1>6

\* A message comes back.
LEMMA ReturnImplements ==
    ASSUME Honest, Account, NEW w \in Workers, Crash(w) \/ Redeliver(w)
    PROVE  Lifecycle!Next
<1>1. task[w] \in Deliveries /\ UNCHANGED <<status, outbox>> /\ Return(task[w])
  BY DEF Honest, TypeOK, Holding, Crash, Redeliver, google
<1>2. status[task[w]] # "absent"
  BY <1>1 DEF Account
<1>3. Lifecycle!Return(task[w])
  BY <1>1, <1>2, SameMails DEF Lifecycle!Return, Return
<1> QED
  BY <1>1, <1>3 DEF Lifecycle!Next

\* The steps that decide nothing leave every row as it is.
LEMMA StatusSteps ==
    ASSUME Next, ~UNCHANGED <<status, returns>>
    PROVE  \/ \E d \in Deliveries : Request(d)
           \/ \E w \in Workers : Record(w) \/ MarkFailed(w) \/ Crash(w) \/ Redeliver(w)
BY DEF Next, Enqueue, EnqueueFails, Take, Deliver, TaskStep, Attach, DriveInit,
       OpenReport, ReportGone, PutChunk, ChunkDropped, ChunkAstray, NoFile, Upload, Share,
       ShareDenied, Send, Ack, Misfortune,
       TokenExpires, Lost, Raise, RaiseLate, Disabled, Escape, Kill, Retention, queue

\* Under every fault, rows and mails behave as if each request were handled by one
\* hand, once per message: mailed before its verdict, and decided again only when
\* its message came back.
THEOREM DeliveryImplementsLifecycle == Spec => DeliverySpec
<1>1. Init => Lifecycle!Init
  <2> SUFFICES ASSUME Init PROVE Lifecycle!Init
    OBVIOUS
  <2>1. \A d \in Deliveries : Cardinality({i \in DOMAIN outbox : outbox[i].for = d}) = 0
    <3>1. \A d \in Deliveries : {i \in DOMAIN outbox : outbox[i].for = d} = {}
      BY DEF Init
    <3> QED
      BY <3>1, FS_EmptySet
  <2> QED
    BY <2>1 DEF Init, Lifecycle!Init, Mails
<1>2. Honest /\ Account /\ [Next]_vars => [Lifecycle!Next]_(Lifecycle!vars)
  <2> SUFFICES ASSUME Honest, Account, [Next]_vars PROVE [Lifecycle!Next]_(Lifecycle!vars)
    OBVIOUS
  <2>1. CASE UNCHANGED <<status, returns, outbox>>
    BY <2>1, SameMails DEF Lifecycle!vars
  <2>2. ASSUME NEW d \in Deliveries, Request(d) PROVE Lifecycle!Next
    <3>1. Lifecycle!Request(d)
      BY <2>2, SameMails DEF Request, google, Lifecycle!Request
    <3> QED
      BY <3>1 DEF Lifecycle!Next
  <2>3. CASE Next /\ ~UNCHANGED <<status, returns>>
    BY <2>2, <2>3, StatusSteps, VerdictImplements, ReturnImplements
  <2>4. CASE Next /\ ~UNCHANGED outbox
    BY <2>4, OutboxSteps, SendImplements
  <2>5. CASE UNCHANGED vars
    BY <2>1, <2>5 DEF vars, google, queue
  <2> QED
    BY <2>1, <2>3, <2>4, <2>5
<1> QED
  BY <1>1, <1>2, Accounting, PTL DEF Spec, DeliverySpec, Lifecycle!Spec

-----------------------------------------------------------------------------
(* What is requested is not forgotten.                                      *)

\* .delay() works, and no message is acknowledged before there is a verdict.
MessagesSurvive == Faults \cap {"broker", "kill", "escape"} = {}

\* A PENDING delivery is on its way: its message is about to be published, on
\* the broker, or in the hands of a worker that is going to give a verdict.
PendingIsUnderway ==
    \A d \in Deliveries : status[d] = "PENDING" =>
        \/ d \in unqueued \/ broker[d] > 0
        \/ \E w \in Workers : task[w] = d /\ pc[w] \notin {"idle", "done"}

\* Who loaded a verdict will not write it again, and need not: no row becomes
\* PENDING once more.
VerdictsLoaded ==
    \A w \in Workers : loaded[w] \in {"SENT", "FAILED"} =>
        task[w] \in Deliveries /\ status[task[w]] \in {"SENT", "FAILED"}

\* A worker goes on with its delivery.
LEMMA TaskKeepsMessages ==
    ASSUME Honest, PendingIsUnderway, VerdictsLoaded, NEW w \in Workers,
           UNCHANGED <<status, unqueued, broker, returns, task, loaded>>,
           \A v \in Workers \ {w} : pc'[v] = pc[v],
           pc[w] \notin {"idle", "done"} => pc'[w] \notin {"idle", "done"}
    PROVE  PendingIsUnderway' /\ VerdictsLoaded'
  BY DEF PendingIsUnderway, VerdictsLoaded

LEMMA VerdictsKeepMessages ==
    ASSUME Honest, PendingIsUnderway, VerdictsLoaded, NEW w \in Workers, Record(w) \/ MarkFailed(w)
    PROVE  PendingIsUnderway' /\ VerdictsLoaded'
<1>1. task[w] \in Deliveries /\ UNCHANGED <<unqueued, broker, task, loaded>>
  BY DEF Record, MarkFailed, Honest, Holding, TypeOK, queue
<1>2. \A v \in Workers \ {w} : pc'[v] = pc[v]
  BY DEF Record, MarkFailed, Goto, Honest, TypeOK
<1>3. PICK verdict \in {"SENT", "FAILED"} : Write(w, verdict)
  BY DEF Record, MarkFailed
<1>4. /\ status'[task[w]] \in {"SENT", "FAILED"}
      /\ \A d \in Deliveries \ {task[w]} : status'[d] = status[d]
  BY <1>1, <1>3 DEF Write, VerdictsLoaded, Honest, TypeOK
<1>5. PendingIsUnderway'
  BY <1>1, <1>2, <1>4 DEF PendingIsUnderway
<1>6. \A v \in Workers : loaded[v] \in {"SENT", "FAILED"} =>
          task[v] \in Deliveries /\ status'[task[v]] \in {"SENT", "FAILED"}
  <2> SUFFICES ASSUME NEW v \in Workers, loaded[v] \in {"SENT", "FAILED"}, task[v] # task[w]
               PROVE  status'[task[v]] = status[task[v]]
    BY <1>4 DEF VerdictsLoaded
  <2> QED
    BY <1>1, <1>3 DEF Write, Honest, TypeOK
<1> QED
  BY <1>1, <1>5, <1>6 DEF VerdictsLoaded

LEMMA DeliverKeepsMessages ==
    ASSUME Honest, PendingIsUnderway, VerdictsLoaded, NEW w \in Workers, NEW d \in Deliveries,
           Deliver(w, d)
    PROVE  PendingIsUnderway' /\ VerdictsLoaded'
<1>1. /\ UNCHANGED <<status, unqueued>> /\ pc[w] = "idle"
      /\ pc'[w] = "begin" /\ task'[w] = d /\ loaded'[w] = status[d]
      /\ \A v \in Workers \ {w} : pc'[v] = pc[v] /\ task'[v] = task[v] /\ loaded'[v] = loaded[v]
      /\ \A e \in Deliveries \ {d} : broker'[e] = broker[e]
  BY DEF Deliver, Goto, Honest, TypeOK
<1>2. PendingIsUnderway'
  BY <1>1 DEF PendingIsUnderway
<1>3. VerdictsLoaded'
  BY <1>1 DEF VerdictsLoaded
<1> QED
  BY <1>2, <1>3

\* A worker lets go of its message: acknowledged, or taken back by the broker.
LEMMA EndKeepsMessages ==
    ASSUME Honest, PendingIsUnderway, VerdictsLoaded, NEW w \in Workers,
           Ack(w) \/ Crash(w) \/ Redeliver(w)
    PROVE  PendingIsUnderway' /\ VerdictsLoaded'
<1>1. UNCHANGED <<status, unqueued>>
  BY DEF Ack, Crash, Redeliver, queue
<1>2. \A v \in Workers \ {w} : pc'[v] = pc[v] /\ task'[v] = task[v] /\ loaded'[v] = loaded[v]
  BY DEF Ack, Crash, Redeliver, Release, Honest, TypeOK, worker
<1>3. \A v \in Workers : loaded'[v] = "absent" \/ (loaded'[v] = loaded[v] /\ task'[v] = task[v])
  BY <1>2 DEF Ack, Crash, Redeliver, Release, Honest, TypeOK, worker
<1>4. VerdictsLoaded'
  BY <1>1, <1>3 DEF VerdictsLoaded
<1>5. CASE Ack(w)
  BY <1>1, <1>2, <1>4, <1>5 DEF Ack, PendingIsUnderway, queue
<1>6. CASE Crash(w) \/ Redeliver(w)
  <2>1. task[w] \in Deliveries /\ broker \in [Deliveries -> Nat]
    BY <1>6 DEF Crash, Redeliver, Honest, Holding, TypeOK
  <2>2. broker' = [broker EXCEPT ![task[w]] = @ + 1]
    BY <1>6 DEF Crash, Redeliver, Return
  <2>3. broker'[task[w]] > 0 /\ \A e \in Deliveries : broker[e] > 0 => broker'[e] > 0
    BY <2>1, <2>2
  <2> QED
    BY <1>1, <1>2, <1>4, <2>1, <2>3 DEF PendingIsUnderway
<1> QED
  BY <1>4, <1>5, <1>6

LEMMA ApiKeepsMessages ==
    ASSUME MessagesSurvive, Honest, PendingIsUnderway, VerdictsLoaded, NEW d \in Deliveries,
           Request(d) \/ Enqueue(d) \/ EnqueueFails(d)
    PROVE  PendingIsUnderway' /\ VerdictsLoaded'
<1>1. ~EnqueueFails(d)
  BY DEF MessagesSurvive, EnqueueFails, Fault
<1>2. UNCHANGED <<pc, task, loaded>>
  BY DEF Request, Enqueue, EnqueueFails, worker
<1>3. CASE Request(d)
  <2>1. /\ status[d] = "absent" /\ unqueued' = unqueued \cup {d} /\ broker' = broker
        /\ status' = [status EXCEPT ![d] = "PENDING"]
    BY <1>3 DEF Request
  <2>2. \A e \in Deliveries : status[e] \in {"SENT", "FAILED"} => status'[e] = status[e]
    BY <2>1 DEF Honest, TypeOK
  <2>3. VerdictsLoaded'
    BY <1>2, <2>2 DEF VerdictsLoaded
  <2> QED
    BY <1>2, <2>1, <2>3 DEF PendingIsUnderway, Honest, TypeOK
<1>4. CASE Enqueue(d)
  <2>1. /\ status' = status /\ unqueued' = unqueued \ {d}
        /\ broker'[d] > 0 /\ \A e \in Deliveries : broker[e] > 0 => broker'[e] > 0
    BY <1>4 DEF Enqueue, Honest, TypeOK
  <2> QED
    BY <1>2, <2>1 DEF PendingIsUnderway, VerdictsLoaded
<1> QED
  BY <1>1, <1>3, <1>4

LEMMA StepKeepsMessages ==
    ASSUME MessagesSurvive, Honest, PendingIsUnderway, VerdictsLoaded, [Next]_vars
    PROVE  PendingIsUnderway' /\ VerdictsLoaded'
<1>1. \A w \in Workers : ~Kill(w) /\ ~Escape(w)
  BY DEF MessagesSurvive, Kill, Escape, Fault
<1>2. ASSUME NEW w \in Workers,
             \/ Attach(w) \/ DriveInit(w) \/ OpenReport(w) \/ ReportGone(w) \/ PutChunk(w)
             \/ ChunkAstray(w) \/ NoFile(w) \/ Upload(w) \/ Share(w) \/ ShareDenied(w) \/ Send(w)
             \/ TokenExpires(w) \/ ChunkDropped(w) \/ Lost(w) \/ Raise(w) \/ RaiseLate(w)
             \/ Disabled(w)
      PROVE  PendingIsUnderway' /\ VerdictsLoaded'
  <2>1. UNCHANGED <<status, unqueued, broker, returns, task, loaded>>
    BY <1>2 DEF Attach, DriveInit, OpenReport, ReportGone, PutChunk, ChunkAstray, NoFile, Upload,
       Share, ShareDenied, Send, TokenExpires, ChunkDropped, Lost, Raise, RaiseLate, Disabled, queue
  <2>2. pc' = pc \/ \E label \in PCs \ {"idle", "done"} : Goto(w, label)
    BY <1>2 DEF Attach, DriveInit, OpenReport, ReportGone, PutChunk, ChunkAstray, NoFile, Upload,
       Share, ShareDenied, Send, TokenExpires, ChunkDropped, Lost, Raise, RaiseLate, Disabled,
       PCs, Trying
  <2>3. /\ \A v \in Workers \ {w} : pc'[v] = pc[v]
        /\ pc[w] \notin {"idle", "done"} => pc'[w] \notin {"idle", "done"}
    BY <2>2 DEF Goto, Honest, TypeOK
  <2> QED
    BY <2>1, <2>3, TaskKeepsMessages
<1>3. CASE Retention \/ UNCHANGED vars
  BY <1>3 DEF Retention, vars, queue, worker, PendingIsUnderway, VerdictsLoaded
<1> QED
  BY <1>1, <1>2, <1>3, VerdictsKeepMessages, DeliverKeepsMessages, EndKeepsMessages, ApiKeepsMessages
     DEF Next, Take, TaskStep, Misfortune

\* No request is forgotten: whatever crashes, is lost, or is delivered twice, a
\* PENDING delivery has a message or a worker that will give it its verdict.
THEOREM NothingIsForgotten == MessagesSurvive /\ Spec => []PendingIsUnderway
<1> SUFFICES ASSUME MessagesSurvive PROVE Spec => []PendingIsUnderway
  OBVIOUS
<1>1. Init => PendingIsUnderway /\ VerdictsLoaded
  BY DEF Init, PendingIsUnderway, VerdictsLoaded
<1> QED
  BY <1>1, StepKeepsMessages, Honesty, PTL DEF Spec

-----------------------------------------------------------------------------
(* What leaves a request behind.                                            *)

LEMMA TaskForgetsNothing ==
    ASSUME NEW d \in Deliveries, ~Forgotten(d), NEW w \in Workers,
           UNCHANGED <<status, unqueued, broker, task>>,
           \A v \in Workers \ {w} : pc'[v] = pc[v],
           pc[w] \notin {"idle", "done"} => pc'[w] \notin {"idle", "done"}
    PROVE  ~Forgotten(d)'
  BY DEF Forgotten

LEMMA VerdictsForgetNothing ==
    ASSUME Honest, VerdictsLoaded, NEW d \in Deliveries, ~Forgotten(d), NEW w \in Workers,
           Record(w) \/ MarkFailed(w)
    PROVE  ~Forgotten(d)'
<1>1. task[w] \in Deliveries /\ UNCHANGED <<unqueued, broker, task>>
  BY DEF Record, MarkFailed, Honest, Holding, TypeOK, queue
<1>2. \A v \in Workers \ {w} : pc'[v] = pc[v]
  BY DEF Record, MarkFailed, Goto, Honest, TypeOK
<1>3. PICK verdict \in {"SENT", "FAILED"} : Write(w, verdict)
  BY DEF Record, MarkFailed
<1>4. /\ status'[task[w]] \in {"SENT", "FAILED"}
      /\ \A e \in Deliveries \ {task[w]} : status'[e] = status[e]
  BY <1>1, <1>3 DEF Write, VerdictsLoaded, Honest, TypeOK
<1> QED
  BY <1>1, <1>2, <1>4 DEF Forgotten

LEMMA MessagesForgetNothing ==
    ASSUME Honest, NEW d \in Deliveries, ~Forgotten(d), NEW w \in Workers,
           \/ Take(w) \/ Ack(w) \/ Crash(w) \/ Redeliver(w)
           \/ (Escape(w) \/ Kill(w)) /\ task[w] # d
    PROVE  ~Forgotten(d)'
<1>0. /\ pc \in [Workers -> PCs] /\ task \in [Workers -> Deliveries \cup {None}]
      /\ broker \in [Deliveries -> Nat]
  BY DEF Honest, TypeOK
<1>1. CASE Take(w)
  <2>1. PICK e \in Deliveries : Deliver(w, e)
    BY <1>1 DEF Take
  <2>2. /\ UNCHANGED <<status, unqueued>> /\ pc[w] = "idle"
        /\ pc'[w] = "begin" /\ task'[w] = e
        /\ \A v \in Workers \ {w} : pc'[v] = pc[v] /\ task'[v] = task[v]
        /\ \A f \in Deliveries \ {e} : broker'[f] = broker[f]
    BY <1>0, <2>1 DEF Deliver, Goto
  <2> QED
    BY <2>2 DEF Forgotten
<1>2. CASE Crash(w) \/ Redeliver(w)
  <2>1. task[w] \in Deliveries /\ UNCHANGED <<status, unqueued>>
    BY <1>2 DEF Crash, Redeliver, Honest, Holding, TypeOK
  <2>2. broker' = [broker EXCEPT ![task[w]] = @ + 1]
    BY <1>2 DEF Crash, Redeliver, Return
  <2>3. broker'[task[w]] > 0 /\ \A e \in Deliveries : broker'[e] = 0 => broker[e] = 0
    BY <1>0, <2>1, <2>2
  <2>4. \A v \in Workers \ {w} : pc'[v] = pc[v] /\ task'[v] = task[v]
    BY <1>0, <1>2 DEF Crash, Redeliver, Release, worker
  <2>5. CASE task[w] = d
    BY <2>3, <2>5 DEF Forgotten
  <2>6. CASE task[w] # d
    BY <2>1, <2>3, <2>4, <2>6 DEF Forgotten
  <2> QED
    BY <2>5, <2>6
<1>3. CASE Ack(w) \/ ((Escape(w) \/ Kill(w)) /\ task[w] # d)
  <2>1. /\ UNCHANGED <<status, unqueued, broker>>
        /\ \A v \in Workers \ {w} : pc'[v] = pc[v] /\ task'[v] = task[v]
        /\ task[w] = d => pc[w] = "done"
    BY <1>0, <1>3 DEF Ack, Escape, Kill, Release, Goto, queue
  <2> QED
    BY <2>1 DEF Forgotten
<1> QED
  BY <1>1, <1>2, <1>3

LEMMA ApiForgetsNothing ==
    ASSUME Honest, NEW d \in Deliveries, ~Forgotten(d), ~EnqueueFails(d), NEW e \in Deliveries,
           Request(e) \/ Enqueue(e) \/ EnqueueFails(e)
    PROVE  ~Forgotten(d)'
<1>0. status \in [Deliveries -> Statuses] /\ broker \in [Deliveries -> Nat]
  BY DEF Honest, TypeOK
<1>1. CASE Request(e)
  BY <1>0, <1>1 DEF Request, Forgotten, worker
<1>2. CASE Enqueue(e)
  BY <1>0, <1>2 DEF Enqueue, Forgotten, worker
<1>3. CASE EnqueueFails(e)
  <2>1. e # d
    BY <1>3
  <2> QED
    BY <1>3, <2>1 DEF EnqueueFails, Forgotten, worker
<1> QED
  BY <1>1, <1>2, <1>3

\* Whoever loaded a verdict left one in the row, under every fault.
LEMMA LoadedVerdicts == Spec => [](Honest /\ VerdictsLoaded)
<1>1. Init => VerdictsLoaded
  BY DEF Init, VerdictsLoaded
<1>2. Honest /\ VerdictsLoaded /\ [Next]_vars => VerdictsLoaded'
  <2> SUFFICES ASSUME Honest, VerdictsLoaded, [Next]_vars PROVE VerdictsLoaded'
    OBVIOUS
  <2>0. /\ status \in [Deliveries -> Statuses] /\ task \in [Workers -> Deliveries \cup {None}]
        /\ loaded \in [Workers -> Statuses]
    BY DEF Honest, TypeOK
  <2>1. ASSUME NEW w \in Workers, Record(w) \/ MarkFailed(w) PROVE VerdictsLoaded'
    <3>1. task[w] \in Deliveries /\ UNCHANGED <<task, loaded>>
      BY <2>1 DEF Record, MarkFailed, Honest, Holding, TypeOK
    <3>2. PICK verdict \in {"SENT", "FAILED"} : Write(w, verdict)
      BY <2>1 DEF Record, MarkFailed
    <3>3. \A d \in Deliveries :
             status[d] \in {"SENT", "FAILED"} => status'[d] \in {"SENT", "FAILED"}
      BY <2>0, <3>1, <3>2 DEF Write
    <3> QED
      BY <3>1, <3>3 DEF VerdictsLoaded
  <2>2. ASSUME NEW w \in Workers, NEW d \in Deliveries, Deliver(w, d) PROVE VerdictsLoaded'
    BY <2>0, <2>2 DEF Deliver, VerdictsLoaded
  <2>3. ASSUME NEW w \in Workers, Ack(w) \/ Crash(w) \/ Kill(w) PROVE VerdictsLoaded'
    BY <2>0, <2>3 DEF Ack, Crash, Kill, Release, VerdictsLoaded
  <2>4. ASSUME NEW d \in Deliveries, Request(d) PROVE VerdictsLoaded'
    BY <2>0, <2>4 DEF Request, VerdictsLoaded, worker
  <2>5. CASE UNCHANGED <<status, task, loaded>>
    BY <2>5 DEF VerdictsLoaded
  <2> QED
    BY <2>1, <2>2, <2>3, <2>4, <2>5
       DEF Next, vars, Enqueue, EnqueueFails, Take, TaskStep, Attach, DriveInit, OpenReport,
           ReportGone, PutChunk, ChunkAstray, NoFile, Upload, Share, ShareDenied, Send, Misfortune,
           TokenExpires, ChunkDropped, Lost, Raise, RaiseLate, Disabled, Escape, Redeliver,
           Retention, worker
<1> QED
  BY <1>1, <1>2, Honesty, PTL DEF Spec

\* Under every fault: a request that stays PENDING for good had no message sent, or
\* lost its task to an exception outside the try or to the hard time limit.
THEOREM ForgottenByLoss == Spec => ForgottenOnlyByLoss
<1> DEFINE Lossy == \A d \in Deliveries : ~Forgotten(d) /\ Forgotten(d)' =>
                       \/ EnqueueFails(d)
                       \/ \E w \in Workers : task[w] = d /\ (Escape(w) \/ Kill(w))
<1>1. Honest /\ VerdictsLoaded /\ [Next]_vars => [Lossy]_vars
  <2> SUFFICES ASSUME Honest, VerdictsLoaded, Next, NEW d \in Deliveries, ~Forgotten(d),
                      ~EnqueueFails(d),
                      ~\E w \in Workers : task[w] = d /\ (Escape(w) \/ Kill(w))
               PROVE  ~Forgotten(d)'
    OBVIOUS
  <2>1. ASSUME NEW w \in Workers,
               \/ Attach(w) \/ DriveInit(w) \/ OpenReport(w) \/ ReportGone(w) \/ PutChunk(w)
               \/ ChunkAstray(w) \/ NoFile(w) \/ Upload(w) \/ Share(w) \/ ShareDenied(w) \/ Send(w)
               \/ TokenExpires(w) \/ ChunkDropped(w) \/ Lost(w) \/ Raise(w) \/ RaiseLate(w)
               \/ Disabled(w)
        PROVE  ~Forgotten(d)'
    <3>1. UNCHANGED <<status, unqueued, broker, task>>
      BY <2>1 DEF Attach, DriveInit, OpenReport, ReportGone, PutChunk, ChunkAstray, NoFile, Upload,
         Share, ShareDenied, Send, TokenExpires, ChunkDropped, Lost, Raise, RaiseLate, Disabled,
         queue
    <3>2. pc' = pc \/ \E label \in PCs \ {"idle", "done"} : Goto(w, label)
      BY <2>1 DEF Attach, DriveInit, OpenReport, ReportGone, PutChunk, ChunkAstray, NoFile, Upload,
         Share, ShareDenied, Send, TokenExpires, ChunkDropped, Lost, Raise, RaiseLate, Disabled,
         PCs, Trying
    <3>3. /\ \A v \in Workers \ {w} : pc'[v] = pc[v]
          /\ pc[w] \notin {"idle", "done"} => pc'[w] \notin {"idle", "done"}
      BY <3>2 DEF Goto, Honest, TypeOK
    <3> QED
      BY <3>1, <3>3, TaskForgetsNothing
  <2>2. CASE Retention
    BY <2>2 DEF Retention, Forgotten, queue, worker
  <2>3. ASSUME NEW w \in Workers, Escape(w) \/ Kill(w) PROVE ~Forgotten(d)'
    BY <2>3, MessagesForgetNothing
  <2> QED
    BY <2>1, <2>2, <2>3, VerdictsForgetNothing, MessagesForgetNothing, ApiForgetsNothing
       DEF Next, TaskStep, Misfortune
<1> HIDE DEF Lossy
<1> QED
  BY <1>1, LoadedVerdicts, PTL DEF Spec, ForgottenOnlyByLoss, Lossy

=============================================================================
