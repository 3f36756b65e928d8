--------------------------- MODULE DownloadSession --------------------------
(***************************************************************************)
(* A session of the GUI with cameras and downloads: MainWindow, Context,   *)
(* CameraForm, ImageListModel, ImageListItem, ProgressBar (GUI thread) and *)
(* ImageDownloader (download thread), under ui/.                           *)
(*                                                                         *)
(* The GUI thread owns the list of cameras and the list of their photos.   *)
(* Photos hold plain pointers to Camera objects.  A download runs in       *)
(* m_downloadThread, reads the photo list without synchronisation and      *)
(* talks back through queued signals.  A queued signal is an element of    *)
(* events, handled by the GUI thread's event loop or by the nested loop of *)
(* a dialog.  Dereferencing a pointer to a destroyed Camera, or an index   *)
(* beyond the photo list, is undefined behaviour and ends the run of the   *)
(* model.                                                                  *)
(***************************************************************************)
EXTENDS Integers, Sequences, FiniteSets, FiniteSetsExt

CONSTANTS
    Devices,        \* connected cameras, numbered from 1
    PhotoCount,     \* number of photos on every device
    TimeOf,         \* time of every photo, to the second
    MaxShows,       \* bound: how often the window gets a show event
    MaxDownloads,   \* bound: how often the user starts a download
    MaxFailures     \* bound: how many files cannot be opened or written

Photos == UNION {{<<d, k>> : k \in 1..PhotoCount[d]} : d \in Devices}
Times == {TimeOf[p] : p \in Photos}
NoPhoto == <<0, 0>>
NoCamera == [gen |-> 0, dev |-> 0]

ASSUME SessionAssumption ==
    /\ Devices \subseteq Nat \ {0} /\ IsFiniteSet(Devices)
    /\ PhotoCount \in [Devices -> Nat]
    /\ TimeOf \in [Photos -> Nat]
    /\ MaxShows \in Nat
    /\ MaxDownloads \in Nat
    /\ MaxFailures \in Nat

VARIABLES
    gen,        \* how often the camera list was built: tells Camera objects apart
    cameraList, \* Context::m_cameraList
    m_current,  \* Context::m_current, counted from 1; 0 is the initial -1
    fileList,   \* ImageListModel::m_fileList
    fill,       \* the camera whose pictures the GUI thread is listing, or NoCamera
    stage,      \* main window: "open", "closing" or "closed"
    shows,      \* show events so far
    dialog,     \* directory dialog: "none" or the download mode it was opened for
    wizards,    \* open calibration wizards, each for a camera, innermost last
    buttons,    \* the download buttons are enabled
    bar,        \* the progress bar
    events,     \* signals queued for the GUI thread
    thread,     \* m_downloadThread: "new", "starting", "running" or "loop"
    connected,  \* downloaders connected to the thread's started signal
    todo,       \* downloaders the started signal has still to run
    step,       \* where the download thread is
    rows,       \* rows the running downloader has still to download
    count,      \* files it has downloaded
    item,       \* the photo it downloads
    name,       \* the time its output files are named after
    files,      \* output directory: what was written, by time
    failures,   \* files that could not be opened or written
    accepted,   \* downloads the user started
    completed,  \* downloads that emitted finished
    undefined   \* the program has run into undefined behaviour

contextVars == <<gen, cameraList, m_current, fileList, fill>>
guiVars == <<stage, shows, dialog, wizards, buttons, bar>>
threadVars == <<todo, step, rows, count, item, name, files, failures,
                completed>>
vars == <<contextVars, guiVars, threadVars, events, thread, connected, accepted, undefined>>

Item(c, k) == [camera |-> c, photo |-> <<c.dev, k>>, thumb |-> FALSE]
NoItem == Item(NoCamera, 0)

Init ==
    /\ gen = 0 /\ cameraList = << >> /\ m_current = 0
    /\ fileList = << >> /\ fill = NoCamera
    /\ stage = "open" /\ shows = 0 /\ dialog = "none" /\ wizards = << >>
    /\ buttons = TRUE
    /\ bar = [max |-> 100, value |-> -1, enabled |-> FALSE]
    /\ events = << >>
    /\ thread = "new" /\ connected = << >> /\ todo = << >> /\ step = "begin"
    /\ rows = {} /\ count = 0 /\ item = NoItem /\ name = 0
    /\ files = [t \in Times |-> [txt |-> NoPhoto, raw |-> NoPhoto]]
    /\ failures = 0
    /\ accepted = 0 /\ completed = 0
    /\ undefined = FALSE

(* Only the cameras of the latest list are still there: assigning a new    *)
(* list destroys the Camera objects of the old one.                        *)
Alive(c) == c.gen = gen

(* The GUI thread is in its event loop or in that of a dialog. *)
GuiFree == ~undefined /\ stage = "open" /\ fill = NoCamera

(* No modal dialog keeps the user from the main window. *)
UserFree == GuiFree /\ dialog = "none" /\ wizards = << >>

-----------------------------------------------------------------------------
(* The GUI thread. *)

(* MainWindow::showEvent queues CameraForm::onInit, on every show. *)
Show ==
    /\ GuiFree
    /\ shows < MaxShows
    /\ shows' = shows + 1
    /\ events' = Append(events, [kind |-> "init", n |-> 0])
    /\ UNCHANGED <<contextVars, threadVars, stage, dialog, wizards, buttons, bar,
                   thread, connected, accepted, undefined>>

(* Context::changeCurrentCamera, and the first step of the slot it calls:  *)
(* ImageListModel::onCameraChanged empties the list and asks the camera.   *)
ChangeCurrentCamera(i, list) ==
    IF m_current = 0 \/ (m_current # i /\ i <= Len(list))
    THEN m_current' = i /\ fileList' = << >> /\ fill' = list[i]
    ELSE UNCHANGED <<m_current, fileList, fill>>

(* Context::getCameras opens every connected camera, silently leaving out  *)
(* those that throw, and keeps them in the order of the bus.  This is the  *)
(* only list of the opened cameras, given as a set of one element.         *)
OpenedCameras(opened) ==
    {list \in [1..Cardinality(opened) -> [gen : {gen + 1}, dev : opened]] :
        \A i, j \in DOMAIN list : i < j => list[i].dev < list[j].dev}

(* CameraForm::onInit *)
HandleInit ==
    /\ GuiFree
    /\ events # << >> /\ Head(events).kind = "init"
    /\ events' = Tail(events)
    /\ gen' = gen + 1
    /\ \E opened \in SUBSET Devices : \E list \in OpenedCameras(opened) :
          /\ cameraList' = list
          /\ IF opened # {} THEN ChangeCurrentCamera(1, list)
                            ELSE UNCHANGED <<m_current, fileList, fill>>
    /\ UNCHANGED <<guiVars, threadVars, thread, connected, accepted, undefined>>

(* The user activates a camera in the list. *)
ActivateCamera(i) ==
    /\ UserFree
    /\ m_current # i
    /\ ChangeCurrentCamera(i, cameraList)
    /\ UNCHANGED <<gen, cameraList, guiVars, threadVars, events, thread, connected,
                   accepted, undefined>>

(* ImageListModel::onCameraChanged appends the photos one by one. *)
AppendPhoto ==
    /\ ~undefined /\ stage = "open" /\ fill # NoCamera
    /\ Len(fileList) < PhotoCount[fill.dev]
    /\ fileList' = Append(fileList, Item(fill, Len(fileList) + 1))
    /\ UNCHANGED <<gen, cameraList, m_current, fill, guiVars, threadVars, events, thread,
                   connected, accepted, undefined>>

(* The list is complete.  CameraCalibrator::onCameraChanged opens the      *)
(* wizard if the camera has no calibration data.                           *)
FillList ==
    /\ ~undefined /\ stage = "open" /\ fill # NoCamera
    /\ Len(fileList) = PhotoCount[fill.dev]
    /\ fill' = NoCamera
    /\ wizards' \in {wizards, Append(wizards, fill)}
    /\ UNCHANGED <<gen, cameraList, m_current, fileList, stage, shows, dialog, buttons, bar,
                   threadVars, events, thread, connected, accepted, undefined>>

(* The wizard's exec returns to CameraCalibrator::onCameraChanged, which   *)
(* goes on using its camera.                                               *)
CloseWizard ==
    /\ GuiFree
    /\ wizards # << >>
    /\ undefined' = ~Alive(wizards[Len(wizards)])
    /\ wizards' = SubSeq(wizards, 1, Len(wizards) - 1)
    /\ UNCHANGED <<contextVars, stage, shows, dialog, buttons, bar, threadVars,
                   events, thread, connected, accepted>>

(* ImageListDelegate::paint fetches a thumbnail that is not cached yet. *)
PaintThumbnail(r) ==
    /\ GuiFree
    /\ r \in DOMAIN fileList
    /\ ~fileList[r].thumb
    /\ IF Alive(fileList[r].camera)
       THEN fileList' = [fileList EXCEPT ![r].thumb = TRUE] /\ UNCHANGED undefined
       ELSE undefined' = TRUE /\ UNCHANGED fileList
    /\ UNCHANGED <<gen, cameraList, m_current, fill, guiVars, threadVars, events,
                   thread, connected, accepted>>

(* A click on a download button opens the directory dialog. *)
ClickDownload(mode) ==
    /\ UserFree
    /\ buttons
    /\ accepted < MaxDownloads
    /\ dialog' = mode
    /\ UNCHANGED <<contextVars, stage, shows, wizards, buttons, bar, threadVars,
                   events, thread, connected, accepted, undefined>>

(* The user leaves the dialog without a directory. *)
CancelDialog ==
    /\ GuiFree
    /\ dialog # "none" /\ wizards = << >>
    /\ dialog' = "none"
    /\ UNCHANGED <<contextVars, stage, shows, wizards, buttons, bar, threadVars,
                   events, thread, connected, accepted, undefined>>

(* CameraForm::download, after the dialog: a downloader for the selected   *)
(* rows is connected to the thread's started signal.  start() does nothing *)
(* if the thread already runs.                                             *)
AcceptDialog(selected) ==
    /\ GuiFree
    /\ dialog # "none" /\ wizards = << >>
    /\ dialog' = "none"
    /\ connected' = Append(connected, [mode |-> dialog, rows |-> selected])
    /\ thread' = IF thread = "new" THEN "starting" ELSE thread
    /\ accepted' = accepted + 1
    /\ UNCHANGED <<contextVars, stage, shows, wizards, buttons, bar, threadVars,
                   events, undefined>>

(* CameraForm::onDownloadStarted, ProgressBar::onProgressStart *)
HandleStarted ==
    /\ GuiFree
    /\ events # << >> /\ Head(events).kind = "started"
    /\ events' = Tail(events)
    /\ buttons' = FALSE
    /\ bar' = [max |-> Head(events).n, enabled |-> TRUE,
               value |-> IF bar.value > Head(events).n THEN -1 ELSE bar.value]
    /\ UNCHANGED <<contextVars, stage, shows, dialog, wizards, threadVars, thread,
                   connected, accepted, undefined>>

(* CameraForm::onDownloadRunning, ProgressBar::onProgress *)
HandleProgress ==
    /\ GuiFree
    /\ events # << >> /\ Head(events).kind = "progress"
    /\ events' = Tail(events)
    /\ bar' = [bar EXCEPT !.value = IF Head(events).n > bar.max THEN @ ELSE Head(events).n]
    /\ UNCHANGED <<contextVars, stage, shows, dialog, wizards, buttons, threadVars,
                   thread, connected, accepted, undefined>>

(* CameraForm::onDownloadFinished, ProgressBar::onProgressFinish *)
HandleFinished ==
    /\ GuiFree
    /\ events # << >> /\ Head(events).kind = "finished"
    /\ events' = Tail(events)
    /\ buttons' = TRUE
    /\ bar' = [bar EXCEPT !.enabled = FALSE]
    /\ UNCHANGED <<contextVars, stage, shows, dialog, wizards, threadVars, thread,
                   connected, accepted, undefined>>

(* The user closes the window: ~CameraForm asks the thread to quit and     *)
(* waits for it.  Nothing is handled any more.                             *)
CloseWindow ==
    /\ UserFree
    /\ stage' = "closing"
    /\ UNCHANGED <<contextVars, shows, dialog, wizards, buttons, bar, threadVars,
                   events, thread, connected, accepted, undefined>>

(* Wrong variant of ThreadJoined: quit() is missing, so the thread stays   *)
(* in its event loop.                                                      *)
ThreadJoinedNoQuit ==
    /\ ~undefined /\ stage = "closing"
    /\ thread = "new"
    /\ stage' = "closed"
    /\ UNCHANGED <<contextVars, shows, dialog, wizards, buttons, bar, threadVars,
                   events, thread, connected, accepted, undefined>>

(* wait() returns when the thread never ran or has left its event loop. *)
ThreadJoined ==
    /\ ~undefined /\ stage = "closing"
    /\ thread \in {"new", "loop"}
    /\ stage' = "closed"
    /\ UNCHANGED <<contextVars, shows, dialog, wizards, buttons, bar, threadVars,
                   events, thread, connected, accepted, undefined>>

-----------------------------------------------------------------------------
(* The download thread. *)

AtStep(s) == ~undefined /\ thread = "running" /\ step = s

Post(kind, n) == events' = Append(events, [kind |-> kind, n |-> n])

(* The thread comes up and emits started: it runs, one after the other,    *)
(* the downloaders connected at that moment.                               *)
EmitStarted ==
    /\ ~undefined /\ thread = "starting"
    /\ thread' = "running"
    /\ todo' = connected
    /\ UNCHANGED <<contextVars, guiVars, step, rows, count, item, name, files, failures,
                   completed, events, connected, accepted, undefined>>

(* onDownloadAll takes the row count once; onDownloadSelected has its rows. *)
BeginDownload ==
    /\ AtStep("begin") /\ todo # << >>
    /\ LET r == IF Head(todo).mode = "all" THEN DOMAIN fileList ELSE Head(todo).rows
       IN  rows' = r /\ Post("started", Cardinality(r))
    /\ count' = 0
    /\ step' = "photo"
    /\ UNCHANGED <<contextVars, guiVars, todo, item, name, files, failures,
                   completed, thread, connected, accepted, undefined>>

(* Wrong variant of FetchPhoto: rows counted from one. *)
FetchPhotoNextRow ==
    /\ AtStep("photo") /\ rows # {}
    /\ IF Min(rows) + 1 \in DOMAIN fileList
       THEN item' = fileList[Min(rows) + 1] /\ step' = "time" /\ UNCHANGED undefined
       ELSE undefined' = TRUE /\ UNCHANGED <<item, step>>
    /\ UNCHANGED <<contextVars, guiVars, todo, rows, count, name, files, failures,
                   completed, events, thread, connected, accepted>>

(* downloadFile: the photo of the row. *)
FetchPhoto ==
    /\ AtStep("photo") /\ rows # {}
    /\ IF Min(rows) \in DOMAIN fileList
       THEN item' = fileList[Min(rows)] /\ step' = "time" /\ UNCHANGED undefined
       ELSE undefined' = TRUE /\ UNCHANGED <<item, step>>
    /\ UNCHANGED <<contextVars, guiVars, todo, rows, count, name, files, failures,
                   completed, events, thread, connected, accepted>>

(* downloadFile: the row is read again for the time that names the files. *)
FetchTime ==
    /\ AtStep("time")
    /\ IF Min(rows) \in DOMAIN fileList
       THEN /\ name' = TimeOf[fileList[Min(rows)].photo]
            /\ step' = "txt"
            /\ UNCHANGED undefined
       ELSE undefined' = TRUE /\ UNCHANGED <<name, step>>
    /\ UNCHANGED <<contextVars, guiVars, todo, rows, count, item, files, failures,
                   completed, events, thread, connected, accepted>>

(* What a file holds after it was saved: the photo; or, if it could not be *)
(* opened, what it held before; or, if it could not be written to its end, *)
(* no whole photo.  Nobody looks at the state of the stream.               *)
Outcome(before, after) ==
    \/ after = item.photo /\ UNCHANGED failures
    \/ /\ after \in {before, NoPhoto}
       /\ failures < MaxFailures /\ failures' = failures + 1

(* downloadFile: the metadata file, through the photo's camera. *)
WriteMetadata ==
    /\ AtStep("txt")
    /\ IF Alive(item.camera)
       THEN /\ \E after \in {item.photo, files[name].txt, NoPhoto} :
                  /\ Outcome(files[name].txt, after)
                  /\ files' = [files EXCEPT ![name].txt = after]
            /\ step' = "raw"
            /\ UNCHANGED undefined
       ELSE undefined' = TRUE /\ UNCHANGED <<files, failures, step>>
    /\ UNCHANGED <<contextVars, guiVars, todo, rows, count, item, name, completed,
                   events, thread, connected, accepted>>

(* Wrong variant of WriteImage: the row is read again for the image. *)
WriteImageRereads ==
    /\ AtStep("raw")
    /\ Min(rows) \in DOMAIN fileList
    /\ files' = [files EXCEPT ![name].raw = fileList[Min(rows)].photo]
    /\ step' = "photo"
    /\ rows' = rows \ {Min(rows)}
    /\ count' = count + 1
    /\ Post("progress", count + 1)
    /\ UNCHANGED <<contextVars, guiVars, todo, item, name, failures, completed, thread,
                   connected, accepted, undefined>>

(* Wrong variant of WriteImage: an image that could not be written counts. *)
WriteImageUnwritten ==
    /\ AtStep("raw")
    /\ step' = "photo"
    /\ rows' = rows \ {Min(rows)}
    /\ count' = count + 1
    /\ Post("progress", count + 1)
    /\ UNCHANGED <<contextVars, guiVars, todo, item, name, files, failures,
                   completed, thread, connected, accepted, undefined>>

(* Wrong variant of WriteImage: the progress is counted from zero. *)
WriteImageFromZero ==
    /\ AtStep("raw")
    /\ files' = [files EXCEPT ![name].raw = item.photo]
    /\ step' = "photo"
    /\ rows' = rows \ {Min(rows)}
    /\ count' = count + 1
    /\ Post("progress", count)
    /\ UNCHANGED <<contextVars, guiVars, todo, item, name, failures, completed, thread,
                   connected, accepted, undefined>>

(* downloadFile: the image file; the downloader reports its progress. *)
WriteImage ==
    /\ AtStep("raw")
    /\ IF Alive(item.camera)
       THEN /\ \E after \in {item.photo, files[name].raw, NoPhoto} :
                  /\ Outcome(files[name].raw, after)
                  /\ files' = [files EXCEPT ![name].raw = after]
            /\ step' = "photo"
            /\ rows' = rows \ {Min(rows)}
            /\ count' = count + 1
            /\ Post("progress", count + 1)
            /\ UNCHANGED undefined
       ELSE undefined' = TRUE /\ UNCHANGED <<files, failures, step, rows, count, events>>
    /\ UNCHANGED <<contextVars, guiVars, todo, item, name, completed, thread,
                   connected, accepted>>

(* The downloader emits finished. *)
EndDownload ==
    /\ AtStep("photo") /\ rows = {}
    /\ Post("finished", 0)
    /\ step' = "begin"
    /\ todo' = Tail(todo)
    /\ completed' = completed + 1
    /\ UNCHANGED <<contextVars, guiVars, rows, count, item, name, files, failures,
                   thread, connected, accepted, undefined>>

(* All slots connected to started have run: the thread enters its event    *)
(* loop, in which it stays.                                                *)
EnterLoop ==
    /\ AtStep("begin") /\ todo = << >>
    /\ thread' = "loop"
    /\ UNCHANGED <<contextVars, guiVars, threadVars, events, connected, accepted,
                   undefined>>

UserAction ==
    \/ Show \/ CloseWindow \/ CloseWizard \/ CancelDialog
    \/ \E i \in DOMAIN cameraList : ActivateCamera(i)
    \/ \E mode \in {"all", "selected"} : ClickDownload(mode)
    \/ \E selected \in SUBSET DOMAIN fileList : AcceptDialog(selected)

GuiStep ==
    \/ HandleInit \/ HandleStarted \/ HandleProgress \/ HandleFinished
    \/ AppendPhoto \/ FillList \/ ThreadJoined

DownloadStep ==
    \/ EmitStarted \/ BeginDownload \/ FetchPhoto \/ FetchTime \/ WriteMetadata
    \/ WriteImage \/ EndDownload \/ EnterLoop

Next ==
    \/ UserAction \/ GuiStep \/ DownloadStep
    \/ \E r \in DOMAIN fileList : PaintThumbnail(r)

Spec == Init /\ [][Next]_vars

(* Both threads are scheduled and the camera answers.  The user need not   *)
(* do anything.                                                            *)
Fairness ==
    /\ WF_vars(GuiStep)
    /\ WF_vars(DownloadStep)

FairSpec == Spec /\ Fairness

-----------------------------------------------------------------------------
Downloading == step # "begin"

(* Every photo in the list belongs to a camera that still exists, which is *)
(* what Image asks for (image.h:39: the camera must be valid for the whole *)
(* lifetime of the file object).                                           *)
PointersValid == \A r \in DOMAIN fileList : Alive(fileList[r].camera)

(* No step of either thread dereferences a destroyed camera or reads       *)
(* beyond the photo list, whatever the download thread and the GUI thread  *)
(* do at the same time.                                                    *)
NoUndefined == ~undefined

(* Between two photos, the metadata and the image file of one name belong  *)
(* to one photo, even if the list was replaced under the download: every   *)
(* pair that does not match was broken by a failed open or write.          *)
PairsIntact ==
    step \in {"begin", "photo"} =>
        Cardinality({t \in Times : files[t].txt # files[t].raw}) <= failures

(* Output files are named after the time of the photo they hold, though    *)
(* the row is read a second time for the time.                             *)
NamesIntact ==
    \A t \in Times : files[t].raw # NoPhoto => TimeOf[files[t].raw] = t

(* The names under which the output directory holds an image. *)
Saved == {t \in Times : files[t].raw # NoPhoto}

(* When the first download has ended there are as many photos in the       *)
(* output directory as its started signal announced (imagedownloader.h:40) *)
(* and its progress signals counted, except for one at most for every file *)
(* that could not be opened or written, which the downloader does not see. *)
EveryPhotoSaved ==
    completed = 1 /\ step = "begin" =>
        Cardinality(Saved) <= count /\ count <= Cardinality(Saved) + failures

(* What downloadFile writes over many steps is what the user selected:     *)
(* every photo, under its own name.                                        *)
PhotosSaved == NamesIntact /\ EveryPhotoSaved

(* The buttons only let the user start a download while one is running if  *)
(* the GUI thread has yet to handle that download's started signal.        *)
ButtonsOffWhileDownloading ==
    Downloading /\ buttons =>
        \E k \in DOMAIN events : events[k].kind = "started"

(* When the download thread rests and its signals are handled, the         *)
(* progress bar is disabled and full: no signal is lost, left over or      *)
(* handled out of order, however many downloads ran.                       *)
QuietAfterDownload ==
    completed > 0 /\ thread = "loop" /\ events = << >> =>
        /\ ~bar.enabled
        /\ bar.max > 0 => bar.value = bar.max

(* The form follows the download thread through the queued signals: its    *)
(* buttons during a download, its progress bar after one.                  *)
FormFollowsDownload == ButtonsOffWhileDownloading /\ QuietAfterDownload

(* Every download the user starts is executed (cameraform.h:76), unless    *)
(* the user closes the window.                                             *)
DownloadsExecuted ==
    \A n \in 1..MaxDownloads :
        accepted = n ~> completed >= n \/ stage # "open"

(* A thread that was started works through its downloads, also when the    *)
(* window is closed meanwhile.                                             *)
FirstDownloadEnds == thread = "starting" ~> thread = "loop" /\ completed > 0

(* The user gets the buttons back. *)
ButtonsReturn == ~buttons ~> buttons \/ stage # "open"

(* Closing the window ends the session: the GUI thread does not wait for a *)
(* download that waits for the GUI thread.                                 *)
CloseCompletes == stage = "closing" ~> stage = "closed"

(* Nothing in the session waits for ever: not the download thread, not the *)
(* user for the buttons, not the GUI thread for the thread it joins.       *)
SessionProgresses == FirstDownloadEnds /\ ButtonsReturn /\ CloseCompletes

-----------------------------------------------------------------------------
(* The invariants behind these properties. *)

Cameras == [gen : Nat \ {0}, dev : Devices]
Items == [camera : Cameras, photo : Photos, thumb : BOOLEAN]
Rows == {r \in SUBSET Nat : IsFiniteSet(r)}
Downloaders == [mode : {"all", "selected"}, rows : Rows]
Signals == [kind : {"init", "started", "progress", "finished"}, n : Nat]
Bars == [max : Nat, value : Nat \union {-1}, enabled : BOOLEAN]
Contents == Photos \union {NoPhoto}

TypeOK ==
    /\ gen \in Nat
    /\ cameraList \in Seq(Cameras)
    /\ m_current \in Nat
    /\ fileList \in Seq(Items)
    /\ fill \in Cameras \union {NoCamera}
    /\ stage \in {"open", "closing", "closed"}
    /\ shows \in 0..MaxShows
    /\ dialog \in {"none", "all", "selected"}
    /\ wizards \in Seq(Cameras)
    /\ buttons \in BOOLEAN
    /\ bar \in Bars
    /\ events \in Seq(Signals)
    /\ thread \in {"new", "starting", "running", "loop"}
    /\ connected \in Seq(Downloaders)
    /\ todo \in Seq(Downloaders)
    /\ step # "begin" => thread = "running" /\ todo # << >>
    /\ step \in {"begin", "photo", "time", "txt", "raw"}
    /\ rows \in Rows
    /\ count \in Nat
    /\ item \in Items \union {NoItem}
    /\ step \in {"time", "txt", "raw"} => item \in Items /\ rows # {}
    /\ name \in Nat
    /\ step \in {"txt", "raw"} => name \in Times
    /\ files \in [Times -> [txt : Contents, raw : Contents]]
    /\ failures \in Nat
    /\ accepted \in Nat
    /\ completed \in Nat
    /\ undefined \in BOOLEAN

(* The names whose pair is broken.  A photo being downloaded has at most   *)
(* its metadata file in front of its image.                                *)
Broken ==
    {t \in Times : IF step = "raw" /\ t = name THEN files[t].txt # item.photo
                                                ELSE files[t].txt # files[t].raw}
PairInv == IsFiniteSet(Broken) /\ Cardinality(Broken) <= failures

(* What of the signals still queued decides the form's state: the last one *)
(* of the given kinds, if there is any.                                    *)
IsKind(k, kinds) == k \in DOMAIN events /\ events[k].kind \in kinds
IsLast(k, kinds) == IsKind(k, kinds) /\ \A j \in DOMAIN events : j > k => ~IsKind(j, kinds)
Handled(kinds) == \A k \in DOMAIN events : ~IsKind(k, kinds)

(* The queue never undoes what the download thread has signalled last.  A  *)
(* signal that the queue no longer holds has reached the form.             *)
ButtonInv ==
    /\ Handled({"started", "finished"}) => (buttons <=> ~Downloading) /\ (bar.enabled <=> Downloading)
    /\ \A k \in DOMAIN events : IsLast(k, {"started", "finished"}) =>
           (events[k].kind = "started" <=> Downloading)

(* The bar is going to show as many files as the running or last download  *)
(* has, and those that are downloaded.                                     *)
Begun == Downloading \/ completed > 0
Total == count + Cardinality(rows)
RangeInv ==
    Begun => /\ Handled({"started"}) => bar.max = Total
             /\ \A k \in DOMAIN events : IsLast(k, {"started"}) => events[k].n = Total
ValueInv ==
    Begun /\ count > 0 =>
        /\ Handled({"started", "progress"}) => bar.value = count
        /\ \A k \in DOMAIN events : IsLast(k, {"started", "progress"}) =>
               events[k].kind = "progress" /\ events[k].n = count
RestInv == step = "begin" /\ completed > 0 => rows = {}

FormInv == ButtonInv /\ RangeInv /\ ValueInv /\ RestInv

(* While the window is shown once: the camera list is built once, before   *)
(* anything refers to it.                                                  *)
Fetching == step \in {"time", "txt", "raw"}
InitInv ==
    /\ shows = 0 => Handled({"init"})
    /\ \A j, k \in DOMAIN events : IsKind(j, {"init"}) /\ IsKind(k, {"init"}) => j = k
    /\ gen # 0 => shows # 0 /\ Handled({"init"})
RefInv ==
    /\ gen = 0 => cameraList = << >>
    /\ \A i \in DOMAIN cameraList : Alive(cameraList[i])
    /\ \A i \in DOMAIN wizards : Alive(wizards[i])
    /\ fill # NoCamera => Alive(fill)
    /\ PointersValid
    /\ Fetching => Alive(item.camera)
OnceInv == InitInv /\ RefInv

(* With a single camera, too: the photo list is filled once, so the rows   *)
(* that were selected stay valid and both reads of a row agree.            *)
ListInv ==
    /\ Len(cameraList) <= 1
    /\ cameraList # << >> => m_current = 1
    /\ \A r \in DOMAIN fileList : fileList[r].photo[2] = r
    /\ \A k \in DOMAIN connected : connected[k].rows \subseteq DOMAIN fileList
    /\ \A k \in DOMAIN todo : todo[k].rows \subseteq DOMAIN fileList
    /\ rows \subseteq DOMAIN fileList
NameInv ==
    /\ Fetching => item.photo = fileList[Min(rows)].photo
    /\ step \in {"txt", "raw"} => name = TimeOf[item.photo]

(* The rows of the first download that are done are those saved. *)
SavedInv ==
    /\ completed = 0 /\ step = "begin" => count = 0
    /\ completed = 0 => \A t \in Saved : files[t].raw[2] \notin rows
    /\ completed = 0 \/ (completed = 1 /\ step = "begin") =>
          /\ IsFiniteSet(Saved)
          /\ Cardinality(Saved) <= count /\ count <= Cardinality(Saved) + failures

SingleInv == ListInv /\ NameInv /\ NamesIntact /\ SavedInv /\ NoUndefined
=============================================================================
