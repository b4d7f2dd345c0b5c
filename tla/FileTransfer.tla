---------------------------- MODULE FileTransfer ----------------------------
(***************************************************************************)
(* The upload and download of one file id.  message/transaction/files.cc   *)
(* passes each chunk to the File service (file/service.cc, which runs one  *)
(* request per file at a time, and file/storage.cc), and then records the  *)
(* progress and, at the end, the ready file in MySQL.                      *)
(*                                                                         *)
(* A file is a sequence of bytes, a digest is the bytes it is of.  Storage *)
(* writes whole blocks: the last one is filled with Zero and cut off by a  *)
(* truncate, a step of its own.                                            *)
(***************************************************************************)
EXTENDS Integers, Sequences, FiniteSets, FiniteSetsExt

CONSTANTS
    Uploads,        \* the attempts of clients to upload under the file id
    Owner,          \* Owner[u]: the uid, which is part of the storage path
    Content,        \* Content[u]: the bytes u wants to store
    Chunk,          \* the bytes a client sends at a time
    Block,          \* disk_write_dma_alignment
    Zero,
    None,
    MaxCalls,       \* bound on the requests of one upload
    Scenarios       \* bounds, one of which a behaviour starts with: the uploads
                    \* there are, the requests each may make (calls), the lost
                    \* answers and failed RPCs and statements (faults), the crashes
                    \* of the File service and failed truncates (disk)

ASSUME FileConstants ==
    /\ {Chunk, Block} \subseteq Nat \ {0}
    /\ MaxCalls \in Nat
    /\ Scenarios \subseteq [uploads : SUBSET Uploads, calls : 0..MaxCalls, faults : Nat, disk : Nat]
    /\ \A u, v \in Uploads : u # None /\ Content[u] # None /\ [owner |-> Owner[u], digest |-> Content[v]] # None

Owners == {Owner[u] : u \in Uploads}
Calls == Uploads \X (1..MaxCalls)

VARIABLES
    part,           \* <owner>/<id>.part: its bytes, or None
    object,         \* <owner>/<id>: its bytes, or None
    ready,          \* the row of fileObjects: owner and digest, or None
    call,           \* how far each request is
    request,        \* offset, data and complete of each request
    answer,         \* the UploadResponse of each request
    detached,       \* the requests whose RPC has failed while File goes on with them
    client,         \* each client: how many requests it has made, its offset, is it waiting
    finished,       \* the uploads that were told that they are complete
    scenario, faults, diskFaults

store == <<part, object>>
handler == <<call, request, answer, detached>>
fileVars == <<store, ready, handler, client, finished, faults, diskFaults, scenario>>

NoRequest == [offset |-> 0, data |-> << >>, complete |-> FALSE]
NoAnswer == [status |-> "none", next |-> 0]
Failed == [status |-> "failed", next |-> 0]
Partial(n) == [status |-> "partial", next |-> n]
Success(n) == [status |-> "success", next |-> n]

FileInit ==
    /\ part = [o \in Owners |-> None] /\ object = [o \in Owners |-> None]
    /\ ready = None
    /\ call = [c \in Calls |-> "none"]
    /\ detached = {}
    /\ request = [c \in Calls |-> NoRequest] /\ answer = [c \in Calls |-> NoAnswer]
    /\ client = [u \in Uploads |-> [calls |-> 0, waiting |-> FALSE, offset |-> 0]]
    /\ finished = {}
    /\ scenario \in Scenarios /\ faults = 0 /\ diskFaults = 0
-----------------------------------------------------------------------------
\* A client sends the bytes from its offset on, and says so when they are the last.
Ask(u) ==
    LET n == client[u].calls + 1
        from == client[u].offset
        data == SubSeq(Content[u], from + 1, Min({from + Chunk, Len(Content[u])}))
    IN  /\ u \in scenario.uploads \ finished /\ ~client[u].waiting /\ n <= scenario.calls
        /\ client' = [client EXCEPT ![u] = [@ EXCEPT !.calls = n, !.waiting = TRUE]]
        /\ call' = [call EXCEPT ![<<u, n>>] = "sent"]
        /\ request' = [request EXCEPT ![<<u, n>>] =
              [offset |-> from, data |-> data, complete |-> from + Len(data) >= Len(Content[u])]]
        /\ UNCHANGED <<store, ready, answer, detached, finished, faults, diskFaults, scenario>>

\* The client's request or its answer gets lost, or takes too long: it asks again
\* from the offset it knows, while the first request may still be executed.
GiveUp(u) ==
    /\ client[u].waiting /\ faults < scenario.faults /\ faults' = faults + 1
    /\ client' = [client EXCEPT ![u].waiting = FALSE]
    /\ UNCHANGED <<store, ready, handler, finished, diskFaults, scenario>>
-----------------------------------------------------------------------------
\* file/service.cc: a request holds the object's semaphore while it is in storage.
InStorage == {"writing", "padded", "appended"}
Exclusive(o) == \A c \in Calls : Owner[c[1]] = o => call[c] \notin InStorage

Stored(c) == IF part[Owner[c[1]]] = None THEN << >> ELSE part[Owner[c[1]]]
FileSize(c) == Len(Content[c[1]])

\* A repeated chunk agrees with what is stored of it.
Agrees(c) ==
    LET r == request[c]
        count == Min({Len(r.data), Len(Stored(c)) - r.offset})
    IN  SubSeq(Stored(c), r.offset + 1, r.offset + count) = SubSeq(r.data, 1, count)

\* storage::upload up to the first write: the answer, or NoAnswer if it goes on to
\* write.
Inspect(c) ==
    LET done == object[Owner[c[1]]]
        r == request[c]
        current == Len(Stored(c))
    IN  IF done # None THEN IF done = Content[c[1]] THEN Success(Len(done)) ELSE Failed
        ELSE IF r.offset < current /\ ~Agrees(c) THEN Failed
        ELSE IF r.offset # current THEN Partial(current)
        ELSE IF current + Len(r.data) > FileSize(c) THEN Failed
        ELSE NoAnswer

Reply(c, a) ==
    /\ answer' = [answer EXCEPT ![c] = a]
    /\ call' = [call EXCEPT ![c] = IF c \in detached THEN "over" ELSE "stored"]

Enter(c) ==
    /\ call[c] = "sent" /\ Exclusive(Owner[c[1]])
    /\ \/ Inspect(c) # NoAnswer /\ Reply(c, Inspect(c))
       \/ Inspect(c) = NoAnswer /\ call' = [call EXCEPT ![c] = "writing"] /\ UNCHANGED answer
    /\ UNCHANGED <<store, ready, request, detached, client, finished, faults, diskFaults, scenario>>

\* append(): the blocks from the tail of the file on, prefix kept, the rest zero.
Padded(bytes) ==
    bytes \o [i \in 1..((-Len(bytes)) % Block) |-> Zero]

WriteBlocks(c) ==
    LET o == Owner[c[1]]
        bytes == Stored(c) \o request[c].data
    IN  /\ call[c] = "writing"
        /\ part' = [part EXCEPT ![o] = IF request[c].data = << >> THEN bytes ELSE Padded(bytes)]
        /\ call' = [call EXCEPT ![c] = "padded"]
        /\ UNCHANGED <<object, ready, request, answer, detached, client, finished, faults, diskFaults, scenario>>

\* As it would be if the file kept the size of its blocks.
TruncateNothing(c) ==
    /\ call[c] = "padded"
    /\ call' = [call EXCEPT ![c] = "appended"]
    /\ UNCHANGED <<store, ready, request, answer, detached, client, finished, faults, diskFaults, scenario>>

Truncate(c) ==
    LET o == Owner[c[1]]
        size == request[c].offset + Len(request[c].data)
    IN  /\ call[c] = "padded"
        /\ part' = [part EXCEPT ![o] = SubSeq(@, 1, size)]
        /\ call' = [call EXCEPT ![c] = "appended"]
        /\ UNCHANGED <<object, ready, request, answer, detached, client, finished, faults, diskFaults, scenario>>

\* As it would be if the declared size were enough to publish the file.
PublishBySize(c) ==
    LET o == Owner[c[1]]
        next == request[c].offset + Len(request[c].data)
    IN  /\ call[c] = "appended"
        /\ \/ /\ request[c].complete /\ next = FileSize(c)
              /\ object' = [object EXCEPT ![o] = part[o]] /\ part' = [part EXCEPT ![o] = None]
              /\ Reply(c, Success(next))
           \/ /\ ~(request[c].complete /\ next = FileSize(c))
              /\ Reply(c, Partial(next)) /\ UNCHANGED store
        /\ UNCHANGED <<ready, request, detached, client, finished, faults, diskFaults, scenario>>

\* The digest of the whole file is compared and the file renamed.
Publish(c) ==
    LET o == Owner[c[1]]
        next == request[c].offset + Len(request[c].data)
        last == request[c].complete /\ next = FileSize(c)
    IN  /\ call[c] = "appended"
        /\ \/ /\ last /\ part[o] = Content[c[1]]
              /\ object' = [object EXCEPT ![o] = part[o]] /\ part' = [part EXCEPT ![o] = None]
              /\ Reply(c, Success(next))
           \/ last /\ part[o] # Content[c[1]] /\ Reply(c, Failed) /\ UNCHANGED store
           \/ ~last /\ Reply(c, Partial(next)) /\ UNCHANGED store
        /\ UNCHANGED <<ready, request, detached, client, finished, faults, diskFaults, scenario>>

\* The File service crashes, or a truncate fails, with a request in storage; the
\* files stay as they are and Message's RPC fails.
DiskFault(c) ==
    /\ diskFaults < scenario.disk /\ diskFaults' = diskFaults + 1
    /\ call[c] \in InStorage
    /\ Reply(c, Failed)
    /\ UNCHANGED <<store, ready, request, detached, client, finished, faults, scenario>>
-----------------------------------------------------------------------------
\* What the client makes of an answer, unless it has given the request up.
Tell(c, a, whole) ==
    LET u == c[1]
        offset == IF a.status = "failed" THEN client[u].offset ELSE Min({a.next, Len(Content[u])})
        listens == client[u].waiting /\ client[u].calls = c[2]
    IN  /\ client' = IF listens THEN [client EXCEPT ![u] = [@ EXCEPT !.waiting = FALSE, !.offset = offset]] ELSE client
        /\ finished' = IF listens /\ whole THEN finished \cup {u} ELSE finished

Over(c) == call' = [call EXCEPT ![c] = "over"]
IsComplete(c) == answer[c].status = "success" /\ request[c].complete

\* files::upload after an answer of File that is FAILED.
Refused(c) ==
    /\ call[c] = "stored" /\ answer[c].status = "failed"
    /\ Over(c) /\ Tell(c, Failed, FALSE)
    /\ UNCHANGED <<store, ready, request, answer, detached, faults, diskFaults, scenario>>

\* save_file_upload_progress; without the last chunk this is the end.
SaveProgress(c) ==
    /\ call[c] = "stored" /\ answer[c].status # "failed"
    /\ \/ IsComplete(c) /\ call' = [call EXCEPT ![c] = "progress"] /\ UNCHANGED <<client, finished>>
       \/ ~IsComplete(c) /\ Over(c) /\ Tell(c, answer[c], FALSE)
    /\ UNCHANGED <<store, ready, request, answer, detached, faults, diskFaults, scenario>>

\* Another owner's file is ready under the id.
Taken(c) == ready # None /\ ready.owner # Owner[c[1]]

\* upsert_ready_file.  It runs without a transaction, so that its SELECT ... FOR
\* UPDATE and its INSERT are two steps: the first refuses an id that another owner
\* has taken, the second keeps the owner of a row that is there by then.
CheckOwner(c) ==
    /\ call[c] = "progress"
    /\ \/ ~Taken(c) /\ call' = [call EXCEPT ![c] = "owned"] /\ UNCHANGED <<client, finished>>
       \/ Taken(c) /\ Over(c) /\ Tell(c, Failed, FALSE)
    /\ UNCHANGED <<store, ready, request, answer, detached, faults, diskFaults, scenario>>

UpsertRow(c) ==
    /\ call[c] = "owned" /\ call' = [call EXCEPT ![c] = "recorded"]
    /\ ready' = [owner |-> IF ready = None THEN Owner[c[1]] ELSE ready.owner, digest |-> Content[c[1]]]
    /\ Tell(c, answer[c], TRUE)
    /\ UNCHANGED <<store, request, answer, detached, faults, diskFaults, scenario>>

\* The RPC fails, with the request executed or not, or a statement does: the
\* client is told so, and nothing is undone.
HandlerFails(c) ==
    /\ faults < scenario.faults /\ faults' = faults + 1
    /\ \/ call[c] = "sent" /\ Over(c) /\ UNCHANGED detached
       \/ call[c] \in {"sent"} \cup InStorage /\ c \notin detached
          /\ detached' = detached \cup {c} /\ UNCHANGED call
       \/ call[c] \in {"stored", "progress", "owned"} /\ Over(c) /\ UNCHANGED detached
    /\ Tell(c, Failed, FALSE)
    /\ UNCHANGED <<store, ready, request, answer, diskFaults, scenario>>

Handle(c) ==
    \/ Enter(c) \/ WriteBlocks(c) \/ Truncate(c) \/ Publish(c)
    \/ Refused(c) \/ SaveProgress(c) \/ CheckOwner(c) \/ UpsertRow(c)

FileNext ==
    \/ \E u \in Uploads : Ask(u) \/ GiveUp(u)
    \/ \E c \in Calls : Handle(c) \/ DiskFault(c) \/ HandlerFails(c)

\* Storage, RPCs and statements end; a client goes on until it is told the end.
FileFairness ==
    /\ \A c \in Calls : WF_fileVars(Handle(c))
    /\ \A u \in Uploads : WF_fileVars(Ask(u))

FileSafeSpec == FileInit /\ [][FileNext]_fileVars
FileSpec == FileSafeSpec /\ FileFairness
-----------------------------------------------------------------------------
\* files::download takes the owner and the digest from the ready row, and
\* storage::download reads that owner's object; a partial file is not read.
Downloaded == object[ready.owner]

\* Requests of an owner other than the row's got past CheckOwner: the row is then
\* made of both, which is the one way in which it may not describe the object.
Contested ==
    \E c \in Calls : call[c] \in {"owned", "recorded"} /\ Owner[c[1]] # ready.owner

\* A file that can be downloaded is the declared file, whole, whatever requests of
\* whichever clients were repeated, overlapped or failed; and a client that was
\* told that its upload is complete can cite its file from then on.  Only an id
\* on which two owners raced into upsert_ready_file is excepted.
ReadyIsWhole ==
    ready # None /\ ~Contested =>
        /\ Downloaded = ready.digest
        /\ \A u \in finished : ready = [owner |-> Owner[u], digest |-> Content[u]]

\* The offset from which a client is told to go on is the number of its bytes
\* that are stored.
ResumesAtStoredBytes ==
    \A c \in Calls :
        call[c] = "stored" /\ answer[c].status = "partial" =>
            /\ answer[c].next <= FileSize(c)
            /\ part[Owner[c[1]]] # None =>
                  \A i \in 1..answer[c].next : part[Owner[c[1]]][i] # Zero

\* An upload whose requests and answers get lost, and whose statements fail, is
\* finished all the same by asking again from the offset it was given, as long as
\* nobody else uploads under the id and the disk does not fail.
UploadEnds ==
    \A u \in Uploads :
        client[u].calls > 0 /\ scenario.uploads = {u} /\ scenario.disk = 0 ~> u \in finished
=============================================================================
