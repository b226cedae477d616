---------------------------- MODULE SlackImport ----------------------------
(***************************************************************************)
(* The import of a Slack export (slack_import): archives are uploaded and  *)
(* queued (routes.rs), the workers' loops claim, run and fail them, beat   *)
(* while they run and sweep those that stopped beating (job.rs, repo.rs),  *)
(* and a run finds or makes the channel, writes its messages with their    *)
(* reactions, pins and files, and closes it (service).                     *)
(*                                                                         *)
(* Every job holds the same export of one channel that is archived in      *)
(* Slack, as when an admin uploads an export again.  The passes over       *)
(* accounts and custom emoji, which find what is there by e-mail and by    *)
(* name, and the members of the channel, whose insertion ignores those who *)
(* are there, are left out; so is the import by command line, which has no *)
(* job.  A direct conversation is made like a private channel.             *)
(***************************************************************************)
EXTENDS Integers, Sequences, FiniteSets

CONSTANTS
    ImportJob,          \* numbers, in order of upload
    Importer,           \* worker replicas
    LastTs,             \* the channel's messages are 1 .. LastTs, in order
    WithFile,           \* the messages that carry a file
    ImportBudgets       \* bounds: workers, uploads, dry runs, retries, faults, lapses

ASSUME ImportAssumption ==
    /\ ImportJob \subseteq Nat /\ LastTs \in Nat \ {0} /\ WithFile \subseteq 1 .. LastTs
    /\ IsFiniteSet(Importer)
    /\ ImportBudgets \subseteq
           [workers : SUBSET Importer, uploads : SUBSET ImportJob, dry : SUBSET ImportJob,
            retries : Nat, faults : Nat, lapses : Nat]

VARIABLES
    imports,            \* slack_imports: status, no heartbeat for STALE_AFTER, archive stored
    importer,           \* each worker: its next step, its job, what it has read, and
                        \* (history) whether no other ran meanwhile
    kind,               \* the kind of the Slack channel, "public" or "private"
    homes,              \* the channels of the workspace: name and kind
    made, closed,       \* those an import made, those that are archived
    mapping,            \* slack_channels: the channel, and created_by_import
    rows,               \* messages with a slack_ts: channel, message, Text or file's number
    dressed,            \* texts with their reactions and pin
    attached,           \* attachments with their file
    torn,               \* history: texts and attachments whose run stopped before they were done
    strays,             \* history: channels made and not mapped
    crossed,            \* history: a run mapped the channel after another had
    doubled, kept,      \* history: jobs two workers ran, archives that were not removed
    again,              \* history: messages whose file was imported twice, see WriteAttachment
    importBudget        \* what is left of the bounds

importVars == <<imports, importer, kind, homes, made, closed, mapping, rows, dressed,
                attached, torn, strays, crossed, doubled, kept, again, importBudget>>
channelVars == <<homes, made, closed, mapping>>
messageVars == <<rows, dressed, attached>>
pastVars == <<torn, strays, crossed, doubled, kept, again>>

NoHome == 0
Text == -1
Idling == [does |-> "poll", job |-> 0, home |-> NoHome, fresh |-> FALSE,
           seen |-> {}, at |-> 0, files |-> 0, alone |-> TRUE]
Busy(w) == importer[w].does # "poll"

ImportInit ==
    /\ imports = [j \in ImportJob |-> [status |-> "none", silent |-> FALSE, archive |-> FALSE]]
    /\ importer = [w \in Importer |-> Idling]
    /\ kind \in {"public", "private"}
    /\ homes \in {<<>>} \cup [{1} -> [name : {0}, kind : {"public", "private"}]]
    /\ made = {} /\ closed = {} /\ mapping = [home |-> NoHome, made |-> FALSE]
    /\ rows = {} /\ dressed = {} /\ attached = {}
    /\ torn = {} /\ strays = 0 /\ crossed = FALSE /\ doubled = {} /\ kept = {} /\ again = {}
    /\ importBudget \in ImportBudgets

Spend(what) ==
    importBudget[what] > 0 /\ importBudget' = [importBudget EXCEPT ![what] = @ - 1]
Then(w, next) == importer' = [importer EXCEPT ![w].does = next]
Stops(w) == importer' = [importer EXCEPT ![w] = Idling]

(* A worker stops with the job complete and the archive not removed. *)
Keeps(w) ==
    LET j == importer[w].job
    IN  kept' = IF imports[j].status = "complete" THEN kept \cup {j} ELSE kept

-----------------------------------------------------------------------------
(* The queue. *)

(* queue: the archive is stored, then the row is written, or is not *)
UploadExport(j) ==
    /\ j \in importBudget.uploads /\ imports[j].status = "none" /\ ~imports[j].archive
    /\ \A i \in importBudget.uploads : i < j => imports[i].status # "none"
    /\ \/ /\ imports' = [imports EXCEPT ![j].archive = TRUE, ![j].status = "pending"]
          /\ UNCHANGED <<kept, importBudget>>
       \/ /\ imports' = [imports EXCEPT ![j].archive = TRUE]
          /\ kept' = kept \cup {j} /\ Spend("faults")
    /\ UNCHANGED <<importer, kind, channelVars, messageVars, torn, strays, crossed, doubled, again>>

(* retry_import, requeue *)
RetryImport(j) ==
    /\ imports[j].status = "failed"
    /\ imports' = [imports EXCEPT ![j].status = "pending", ![j].silent = FALSE]
    /\ Spend("retries")
    /\ UNCHANGED <<importer, kind, channelVars, messageVars, pastVars>>

(* claim_next: the oldest pending job *)
ClaimImport(w, j) ==
    LET Others == {v \in Importer : Busy(v)} IN
    /\ w \in importBudget.workers /\ ~Busy(w) /\ imports[j].status = "pending"
    /\ \A i \in ImportJob : i < j => imports[i].status # "pending"
    /\ imports' = [imports EXCEPT ![j].status = "running", ![j].silent = FALSE]
    /\ importer' = [v \in Importer |->
           IF v = w THEN [Idling EXCEPT !.does = "download", !.job = j, !.alone = Others = {}]
           ELSE [importer[v] EXCEPT !.alone = ~Busy(v)]]
    /\ doubled' = IF \E v \in Others : importer[v].job = j
                  THEN doubled \cup {j} ELSE doubled
    /\ UNCHANGED <<kind, channelVars, messageVars, torn, strays, crossed, kept, again, importBudget>>

(* beat: by id, whoever claimed the row *)
BeatImport(w) ==
    LET j == importer[w].job IN
    /\ Busy(w) /\ importer[w].does # "fail"
    /\ imports[j].status = "running" /\ imports[j].silent
    /\ imports' = [imports EXCEPT ![j].silent = FALSE]
    /\ UNCHANGED <<importer, kind, channelVars, messageVars, pastVars, importBudget>>

(* STALE_AFTER passes without a heartbeat: nobody beats, or the beats fail *)
FallSilent(j) ==
    /\ imports[j].status = "running" /\ ~imports[j].silent
    /\ \/ /\ \A w \in Importer : importer[w].job = j => importer[w].does = "fail"
          /\ UNCHANGED importBudget
       \/ Spend("lapses")
    /\ imports' = [imports EXCEPT ![j].silent = TRUE]
    /\ UNCHANGED <<importer, kind, channelVars, messageVars, pastVars>>

Stale == {j \in ImportJob : imports[j].status = "running" /\ imports[j].silent}

(* fail_stale, before each claim *)
FailStale(w) ==
    /\ ~Busy(w) /\ Stale # {}
    /\ imports' = [j \in ImportJob |->
                       IF j \in Stale THEN [imports[j] EXCEPT !.status = "failed"] ELSE imports[j]]
    /\ UNCHANGED <<importer, kind, channelVars, messageVars, pastVars, importBudget>>

-----------------------------------------------------------------------------
(* A run.  An error of one of its statements ends it, and the worker goes  *)
(* on with fail_run.                                                       *)

Fails(w) == Spend("faults") /\ Then(w, "fail")

(* run: download *)
DownloadExport(w) ==
    /\ importer[w].does = "download"
    /\ \/ /\ Then(w, IF imports[importer[w].job].archive THEN "load" ELSE "fail")
          /\ UNCHANGED importBudget
       \/ Fails(w)
    /\ UNCHANGED <<imports, kind, channelVars, messageVars, pastVars>>

(* load_existing_mappings.  A dry run goes through the rest and writes     *)
(* nothing but its report.                                                 *)
LoadMapping(w) ==
    /\ importer[w].does = "load"
    /\ importer' = [importer EXCEPT
           ![w].does = CASE importer[w].job \in importBudget.dry -> "finish"
                         [] mapping.home # NoHome -> "list"
                         [] OTHER -> "place",
           ![w].home = mapping.home, ![w].fresh = mapping.made]
    /\ UNCHANGED <<imports, kind, channelVars, messageVars, pastVars, importBudget>>

Named(n) == {h \in DOMAIN homes : homes[h].name = n}

(* place_channel: a channel found under a candidate's name is used, or is   *)
(* passed over for the next candidate                                      *)
Joins(h) == kind # "private" /\ homes[h].kind = kind

PlaceChannel(w) ==
    \E n \in 0 .. Len(homes) :
        /\ importer[w].does = "place"
        /\ \A i \in 0 .. n - 1 : \E h \in Named(i) : ~Joins(h)
        /\ \/ /\ Named(n) = {}
              /\ importer' = [importer EXCEPT ![w].does = "create", ![w].at = n]
           \/ \E h \in Named(n) :
                  Joins(h) /\ importer' = [importer EXCEPT ![w].does = "map", ![w].home = h]
        /\ UNCHANGED <<imports, kind, channelVars, messageVars, pastVars, importBudget>>

(* create_channel, under the unique name of a channel that is open *)
CreateChannel(w) ==
    LET h == Len(homes) + 1 IN
    /\ importer[w].does = "create"
    /\ \/ /\ Named(importer[w].at) \subseteq closed
          /\ homes' = Append(homes, [name |-> importer[w].at, kind |-> kind])
          /\ made' = made \cup {h}
          /\ importer' = [importer EXCEPT ![w].does = "map", ![w].home = h, ![w].fresh = TRUE]
          /\ UNCHANGED importBudget
       \/ /\ ~(Named(importer[w].at) \subseteq closed)
          /\ Then(w, "fail") /\ UNCHANGED <<homes, made, importBudget>>
       \/ Fails(w) /\ UNCHANGED <<homes, made>>
    /\ UNCHANGED <<imports, kind, closed, mapping, messageVars, pastVars>>

Stray(w) == IF importer[w].does = "map" /\ importer[w].fresh THEN 1 ELSE 0

(* map_channel overwrites *)
MapChannel(w) ==
    /\ importer[w].does = "map"
    /\ \/ /\ mapping' = [home |-> importer[w].home, made |-> importer[w].fresh]
          /\ crossed' = (crossed \/ mapping.home # NoHome)
          /\ Then(w, "list") /\ UNCHANGED <<strays, importBudget>>
       \/ Fails(w) /\ strays' = strays + Stray(w) /\ UNCHANGED <<mapping, crossed>>
    /\ UNCHANGED <<imports, kind, homes, made, closed, messageVars, torn, doubled, kept, again>>

(* already_imported *)
ListImported(w) ==
    LET h == importer[w].home IN
    /\ importer[w].does = "list"
    /\ \/ /\ importer' = [importer EXCEPT
                 ![w].does = "message", ![w].at = 1,
                 ![w].seen = {<<r[2], r[3]>> : r \in {x \in rows : x[1] = h}}]
          /\ UNCHANGED importBudget
       \/ Fails(w)
    /\ UNCHANGED <<imports, kind, channelVars, messageVars, pastVars>>

(* Where the run is, and what comes after a message. *)
Here(w) == <<importer[w].home, importer[w].at>>
Row(w, n) == <<importer[w].home, importer[w].at, n>>
Onward(w, files) ==
    importer' = [importer EXCEPT
        ![w].does = IF importer[w].at = LastTs THEN "close" ELSE "message",
        ![w].at = @ + 1, ![w].files = files]
AfterText(w) ==
    IF importer[w].at \in WithFile THEN Then(w, "fetch") ELSE Onward(w, importer[w].files)

(* import_message, when the text is there: its file, if no first one is *)
MissesFile(w) == <<importer[w].at, 0>> \notin importer[w].seen

(* import_message and write_message, with the unique slack_ts of a channel. *)
(* The answer to the insertion may be lost.                                 *)
WriteMessage(w) ==
    LET m == importer[w].at
        r == Row(w, Text)
        known == <<m, Text>> \in importer[w].seen IN
    /\ importer[w].does = "message"
    /\ \/ /\ known
          /\ IF MissesFile(w) THEN AfterText(w) ELSE Onward(w, importer[w].files)
          /\ UNCHANGED <<rows, torn, importBudget>>
       \/ /\ ~known /\ r \notin rows
          /\ rows' = rows \cup {r}
          /\ \/ Then(w, "dress") /\ UNCHANGED <<torn, importBudget>>
             \/ Fails(w) /\ torn' = torn \cup {r}
       \/ /\ ~known /\ r \in rows /\ Then(w, "fail")
          /\ UNCHANGED <<rows, torn, importBudget>>
       \/ ~known /\ Fails(w) /\ UNCHANGED <<rows, torn>>
    /\ UNCHANGED <<imports, kind, channelVars, dressed, attached, strays, crossed, doubled, kept, again>>

(* import_reactions and set_pinned, one statement each *)
Dress(w) ==
    /\ importer[w].does = "dress"
    /\ \/ /\ dressed' = dressed \cup {Here(w)}
          /\ AfterText(w) /\ UNCHANGED <<torn, importBudget>>
       \/ /\ Fails(w) /\ torn' = torn \cup {Row(w, Text)}
          /\ UNCHANGED dressed
    /\ UNCHANGED <<imports, kind, channelVars, rows, attached, strays, crossed, doubled, kept, again>>

(* import_files: the bytes, from Slack to the storage.  Without a token,   *)
(* or once the link has expired, the file is reported and skipped.         *)
FetchFile(w) ==
    /\ importer[w].does = "fetch"
    /\ Then(w, "attachment") \/ Onward(w, importer[w].files)
    /\ UNCHANGED <<imports, kind, channelVars, messageVars, pastVars, importBudget>>

(* import_files: the attachment's message, whose key counts the files of   *)
(* the run; an error, of a key in use too, skips the file.  A file comes a *)
(* second time if the first has another number than 0, the one MissesFile  *)
(* looks for, or if another run was under way.                             *)
WriteAttachment(w) ==
    LET r == Row(w, importer[w].files)
        copies == {x \in rows : <<x[1], x[2]>> = Here(w) /\ x[3] # Text}
        excused == \/ Row(w, 0) \notin copies
                   \/ ~importer[w].alone IN
    /\ importer[w].does = "attachment"
    /\ \/ /\ r \notin rows
          /\ rows' = rows \cup {r}
          /\ again' = IF copies # {} /\ excused THEN again \cup {Here(w)} ELSE again
          /\ Then(w, "attach") /\ UNCHANGED importBudget
       \/ /\ \/ r \in rows /\ UNCHANGED importBudget
             \/ Spend("faults")
          /\ Onward(w, importer[w].files) /\ UNCHANGED <<rows, again>>
    /\ UNCHANGED <<imports, kind, channelVars, dressed, attached, torn, strays, crossed, doubled, kept>>

(* import_files: the file's row, and the attachment that shows it *)
AttachFile(w) ==
    LET r == Row(w, importer[w].files) IN
    /\ importer[w].does = "attach"
    /\ \/ /\ attached' = attached \cup {r}
          /\ Onward(w, importer[w].files + 1) /\ UNCHANGED <<torn, importBudget>>
       \/ /\ Onward(w, importer[w].files) /\ Spend("faults")
          /\ torn' = torn \cup {r} /\ UNCHANGED attached
    /\ UNCHANGED <<imports, kind, channelVars, rows, dressed, strays, crossed, doubled, kept, again>>

(* Mutant: the channel is archived whoever made it. *)
ToArchiveAny(w) == {importer[w].home}

(* import_channels: only a channel the import made is archived in the end *)
ToArchive(w) == IF importer[w].fresh THEN {importer[w].home} ELSE {}

(* archive_channels *)
ArchiveChannel(w) ==
    /\ importer[w].does = "close"
    /\ \/ closed' = closed \cup ToArchive(w) /\ Then(w, "finish") /\ UNCHANGED importBudget
       \/ Fails(w) /\ UNCHANGED closed
    /\ UNCHANGED <<imports, kind, homes, made, mapping, messageVars, pastVars>>

(* finish_run, by id; its answer may be lost *)
FinishRun(w) ==
    LET complete == [imports EXCEPT ![importer[w].job].status = "complete"] IN
    /\ importer[w].does = "finish"
    /\ \/ imports' = complete /\ Then(w, "discard") /\ UNCHANGED importBudget
       \/ imports' \in {imports, complete} /\ Fails(w)
    /\ UNCHANGED <<kind, channelVars, messageVars, pastVars>>

(* run: once the import is done the archive is deleted, as far as possible *)
DiscardArchive(w) ==
    LET j == importer[w].job IN
    /\ importer[w].does = "discard"
    /\ \/ imports' = [imports EXCEPT ![j].archive = FALSE] /\ UNCHANGED <<kept, importBudget>>
       \/ Keeps(w) /\ Spend("faults") /\ UNCHANGED imports
    /\ Stops(w)
    /\ UNCHANGED <<kind, channelVars, messageVars, torn, strays, crossed, doubled, again>>

(* fail_run, by id; its error is dropped *)
FailRun(w) ==
    /\ importer[w].does = "fail"
    /\ \/ /\ imports' = [imports EXCEPT ![importer[w].job].status = "failed"]
          /\ UNCHANGED <<kept, importBudget>>
       \/ Spend("faults") /\ Keeps(w) /\ UNCHANGED imports
    /\ Stops(w)
    /\ UNCHANGED <<kind, channelVars, messageVars, torn, strays, crossed, doubled, again>>

ImporterDies(w) ==
    LET here == importer[w].does IN
    /\ Busy(w) /\ Spend("faults") /\ Stops(w)
    /\ torn' = torn \cup
           CASE here = "dress" -> {Row(w, Text)}
             [] here = "attach" -> {Row(w, importer[w].files)}
             [] OTHER -> {}
    /\ strays' = strays + Stray(w)
    /\ Keeps(w)
    /\ UNCHANGED <<imports, kind, channelVars, messageVars, crossed, doubled, again>>

-----------------------------------------------------------------------------
ImportStep(w) ==
    \/ \E j \in ImportJob : ClaimImport(w, j)
    \/ FailStale(w) \/ DownloadExport(w) \/ LoadMapping(w)
    \/ PlaceChannel(w) \/ CreateChannel(w) \/ MapChannel(w) \/ ListImported(w)
    \/ WriteMessage(w) \/ Dress(w) \/ FetchFile(w) \/ WriteAttachment(w) \/ AttachFile(w)
    \/ ArchiveChannel(w) \/ FinishRun(w) \/ DiscardArchive(w) \/ FailRun(w)

ImportNext ==
    \/ \E j \in ImportJob : UploadExport(j) \/ RetryImport(j) \/ FallSilent(j)
    \/ \E w \in Importer : ImportStep(w) \/ BeatImport(w) \/ ImporterDies(w)

-----------------------------------------------------------------------------
Writing == {"message", "dress", "fetch", "attachment", "attach"}

(* Every variable stays in its domain. *)
ImportTypeOK ==
    /\ imports \in [ImportJob -> [status : {"none", "pending", "running", "complete", "failed"},
                                  silent : BOOLEAN, archive : BOOLEAN]]
    /\ \A w \in Importer :
           /\ importer[w].does \in Writing \cup
                  {"poll", "download", "load", "place", "create", "map", "list", "close",
                   "finish", "discard", "fail"}
           /\ importer[w].job \in ImportJob \cup {0}
           /\ importer[w].home \in DOMAIN homes \cup {NoHome}
           /\ importer[w].files \in 0 .. LastTs /\ importer[w].at \in Nat
           /\ importer[w].does \in Writing => importer[w].at \in 1 .. LastTs
    /\ made \subseteq DOMAIN homes /\ closed \subseteq DOMAIN homes
    /\ mapping.home \in DOMAIN homes \cup {NoHome}
    /\ rows \subseteq (DOMAIN homes) \X (1 .. LastTs) \X (Text .. LastTs - 1)
    /\ dressed \subseteq (DOMAIN homes) \X (1 .. LastTs) /\ attached \subseteq rows

AtWork(r, does) ==
    \E w \in Importer : importer[w].does = does /\ Here(w) = <<r[1], r[2]>>

(* A row of an import is whole, its reactions and pin or its file with it, *)
(* unless a run is at it or stopped there: a re-run finds the row and does *)
(* not look at what belongs to it.                                         *)
RowIsWhole ==
    \A r \in rows \ torn :
        IF r[3] = Text THEN <<r[1], r[2]>> \in dressed \/ AtWork(r, "dress")
                       ELSE r \in attached \/ AtWork(r, "attach")

(* When a job is complete every message of the export is in one channel,   *)
(* the mapped one, and the channel is archived if an import made it,       *)
(* however many runs were interrupted before ("what makes an interrupted   *)
(* import resumable").  Two runs may have mapped two channels.             *)
CompleteIsThere ==
    \A j \in ImportJob \ importBudget.dry : imports[j].status = "complete" =>
        \E h \in DOMAIN homes :
            /\ \A m \in 1 .. LastTs : <<h, m, Text>> \in rows
            /\ crossed \/ (h = mapping.home /\ (mapping.made => h \in closed))

(* However often the export is imported, its messages go to one channel    *)
(* and one channel is made, and one more for each run that stopped between *)
(* making and mapping it.  Not so when two runs do that at once.           *)
OneHome ==
    ~crossed => /\ Cardinality(made) <= 1 + strays
                              + Cardinality({w \in Importer : Stray(w) = 1})
                /\ \A r \in rows : r[1] = mapping.home

(* A channel that was there before is never archived by an import.         *)
OthersStayOpen == closed \subseteq made

(* A file is imported once, unless the run that brought it had brought     *)
(* others before, or two runs overlapped (WriteAttachment).                *)
FileOnceUnlessCounted ==
    \A r, s \in rows :
        r[1] = s[1] /\ r[2] = s[2] /\ r[3] # Text /\ s[3] # Text /\ r # s
        => <<r[1], r[2]>> \in again

(* A job that is to be done, under way or can be started again has its     *)
(* archive; when it is complete the copy of the history is gone.  Not so   *)
(* when two workers ran it: one that was presumed dead deletes the archive *)
(* and the other may still fail.                                           *)
ArchiveFitsStatus ==
    \A j \in ImportJob \ doubled :
        IF imports[j].status \in {"pending", "running", "failed"}
        THEN imports[j].archive
        ELSE imports[j].archive => \/ j \in kept
                                   \/ \E w \in Importer : importer[w].job = j
                                                          /\ importer[w].does \in {"discard", "fail"}

(* Running an import again, after failures anywhere and beside another     *)
(* run, completes it and repeats nothing, outside the circumstances each   *)
(* part names.                                                             *)
ImportSafety ==
    /\ ImportTypeOK /\ RowIsWhole /\ CompleteIsThere /\ OneHome /\ OthersStayOpen
    /\ FileOnceUnlessCounted /\ ArchiveFitsStatus
=============================================================================
