# A TLA+ development for Lyli

Lyli is a library, a command line program and a Qt application for the first
Lytro light-field camera. It talks to the camera over USB, downloads photos and
calibration images, detects the lenses of the micro-lens array in the latter and
computes calibration data from them. This directory holds TLA+ models of the
parts of Lyli in which order, interleaving, failure or a long chain of steps
matters, the TLC configurations that check them and TLAPS proofs of the most
important results. Paths below are relative to the root of the repository.

`PROJECT.json` is the index: components, runs, wrong variants used to test the
properties, the map from definitions to source lines, findings, hazards and
theorems.

## 1. The system

| Part | State it keeps | Operations | Talks to |
|---|---|---|---|
| `Lyli::Camera` (`lib/camera.cpp`) | USB handle, `cameraAccessMutex`; on the device one transfer buffer and a protocol phase | `waitReady`, `getCameraInformation`, `getPictureList`, `getFile` | the device through libusbpp (external); called by GUI thread and download thread |
| `Lyli::Context` (`lib/context.cpp`) | libusb context | `getCameras` | creates `Camera` objects |
| Photos (`lib/filesystem`) | pointer to a `Camera`, file name | `getPictureList`, `getCalibrationList`, `getImageData`, `getImageMetadata` | `Camera::getFile`; used by the camera tab and the command line |
| Command line program (`lib/main.cpp`) | options, the camera, a working directory | `-i`, `-l`, `-d`, `-t`, `-c`, `-p`, `-f` | everything in `lib`, the file system |
| `Calibrator` (`lib/calibration/calibrator.cpp`) | `m_serial`, list of grids, clusters by lens configuration, a mutex | `addGrid`, `calibrate` | called by parallel workers (`lib/main.cpp`, `ui/cameraview/cameracalibrator.cpp`) |
| `LensDetector` (`lib/calibration/lensdetector.cpp`) | none | `detect` | fills a `PointGrid` |
| `PointGrid` (`lib/calibration/pointgrid.cpp`) | points, accumulator, horizontal and vertical lines | `addPoint`, `finalize`, copy | read by `Calibrator` |
| `LineGrid`, `GridMath`, `GridMapper` | lines of a calibrated grid | construction, rotation, mapping | `Calibrator::calibrate` |
| `CalibrationData` | camera record and lens records | construction, serialization | stored by `LyliConfig` and by option `-c` |
| Camera tab (`ui/cameraview`) | camera list, photo list, buttons, progress bar, download thread | show, select, download, close | `Camera` in two threads, queued Qt signals |
| Calibration flow (`cameracalibrator.cpp`, `lyliconfig.cpp`) | calibration files on disk | check, download, calibrate, store | `Camera`, `Calibrator`, the file system |
| Viewer (`ui/imageview`) | a `LytroImage` that owns a `QImage`, a scale | open, zoom, save, close | `RawImage`, `Metadata`, `LightfieldImage`, `LyliConfig`, files others write |
| `RawImage`, `LightfieldImage`, `Metadata` | decoded image, a JSON tree shared by copies | decode, sample, access | files |

What is hard here: the request/read protocol of the camera keeps its state on
the device, shared by two threads and surviving failures; the calibration loop
runs `addGrid` in parallel with a check outside the lock; the download thread
reads a list that the GUI thread replaces, through plain pointers; a download
that was cut off by a crash leaves files that later attempts trust, and so do
the command line program and the viewer; `PointGrid::finalize` and
`averageGrids` sort thousands of points and lines into groups while the groups
move; and indices, lengths and ids are used without being compared with what
they index. The list of hazards in `PROJECT.json` puts each of them at
its line.

## 2. Modules

| Module | Models | Role |
|---|---|---|
| `CameraAccess` | `lib/camera.cpp` | protocol between threads and device, one action per USB transfer |
| `CameraService` | promise of `lib/camera.h` | abstract specification: every call is atomic; `CameraAccess` implements it |
| `CameraAccessProofs` | | theorems about `CameraAccess` |
| `Calibrator` | `addGrid`, the parallel loop, the outcome of `calibrate` | one action per access to shared data |
| `CalibratorProofs` | | theorems about `Calibrator` |
| `DownloadSession` | main window, camera tab, download thread | one action per slot of the GUI thread, one per step of `downloadFile` |
| `DownloadSessionProofs` | | theorems about `DownloadSession` |
| `CalibrationFlow` | `CameraCalibrator::onCameraChanged` and `LyliConfig` | one action per change of the disk |
| `CalibrationFlowProofs` | | theorems about `CalibrationFlow` |
| `PointGrid` | `PointGrid` | one action per iteration of the loops of `finalize` |
| `PointGridProofs` | | theorems about `PointGrid` |
| `Ordering` | `std::sort`, `std::map` | the elements of a finite set in order, used by `PointGrid`, `GridMath` and `CalibrationData` |
| `LensDetector` | scan of `detect`, flood fill of `findCentroid` | one action per row of the fill |
| `Preprocessing` | `fftpreprocessor.cpp` | the cleared frequencies and the opening, used by `LensDetector` |
| `LensDetectorProofs` | | theorems about `LensDetector` and `Preprocessing` |
| `Rationals` | `float` and `double` | exact fractions with a value that is not a number |
| `GridMath` | `linegrid.cpp`, `gridmath.cpp`, `gridmapper.cpp`, `mathutil.h` | operators on line grids |
| `CalibrationData` | `calibrationdata.cpp`, `serialization.cpp` | records and their JSON form |
| `LightfieldImage` | `lightfieldimage.cpp` | which crossing of lines a pixel comes from |
| `Calibrate` | `Calibrator::calibrate` | composes the four above: one action per call, in `averageGrids` one per line, then store, read and sample |
| `CalibrateProofs` | | theorems about `Calibrate` and the modules it composes |
| `Disk` | the directory images are kept in | variables shared by the two programs |
| `FileList` | `filesystemaccess.cpp` | one action per entry of the list |
| `CommandLine` | `lib/main.cpp` | one action per option, file opened, file written, picture |
| `RawImage`, `Metadata` | `rawimage.cpp`, `metadata.cpp` | operators used when the viewer opens an image |
| `Viewer` | `ui/imageview` | one action per slot, opening an image in three steps |
| `Programs` | | composes `CommandLine` and `Viewer` on one `Disk` |
| `ProgramsProofs` | | theorems about `Programs` |
| `MC...` | | values of constants for TLC |

Modules are kept apart where they meet only through a result: `CalibrationFlow`
takes `Calibrator` at its outcome (the set of images whose grids were added),
and `DownloadSession` takes `Camera` calls as single steps, which is what
`CameraService` justifies.

No caller in the source looks whether a file could be opened or written. Where
files are written the models therefore have both outcomes: the failure leaves
the file as it was, or incomplete, and the program goes on as after a success.

### CameraAccess

`pc[t]` is the step thread `t` is at inside a call, `req[t]` its argument,
`packet[t]` and `result[t]` the locals of `downloadData`, `reply[t]` what the
call returned. `loaded`, `phase` and `ready` belong to the device. A call locks
the mutex (`Lock`), requests a resource (`Inquiry`, `RequestData` or the three
transfers of `getFile`: `SendCommand`, `SendName`, `ReadStatus`), reads packets
until one is not full (`GetLength`, `GetData`), unlocks and returns. Any
transfer may fail (`Throw`), after which the device may be in any phase; the
process may end at any moment (`Terminate`) with the device left as it is; the
device may be unplugged and reconnected (`Replug`). `waitReady` polls. The
packet counter is kept modulo `PacketValues`, 256 in the code.

### Calibrator

Workers take images (`TakeImage`), compare the serial number outside the lock
(`CheckSerial`, which may throw), and inside the lock set the serial number,
append the grid and file its position under its lens configuration. An
exception stops the loop from taking further images, as TBB does. An unlocked
read of the `m_serial` string that races with its assignment finds it empty or
complete.

### DownloadSession

The GUI thread handles user actions and queued signals; a modal dialog or the
wizard runs a nested event loop. The download thread runs its slots, then stays
in its event loop until it is told to quit. Pointers are modelled by the
generation of the camera list they were taken from: `Alive` says whether the
`Camera` still exists. Reading a photo through a dead pointer, or a row that is
not there, sets `undefined` and ends the run. The race on `m_fileList` is
modelled at the level of rows: the list is emptied and refilled one photo at a
time (`AppendPhoto`), and a reader sees it before or after a step of the writer.
`Outcome` says what a file holds after it was saved: the photo or, if it could
not be opened or written, what it held before or no whole photo; `failures`
counts these.

### CalibrationFlow

`cacheDir`, `cache`, `config` and `source` are on disk and survive `Crash`,
which stands for the death of the process and for an exception that leaves
`onCameraChanged`. A file is opened (truncated) in one step and written in
another, and either may fail unnoticed (`Fail`, counted by `failures`). `KeysOf`
says which serial number a metadata file yields: that of the
camera when it is whole, none when it is empty, either when it is truncated. A
truncated image may yield a grid, look flat, or let `finalize` run beyond its
points; images none of whose lines is in most of them (`Unmatched`) let
`calibrate` read lines that are not there. Both lead to `"undefined"`, as having
no grid does.

### PointGrid

The scan adds the centroids of a lattice of lenses, of which up to `MaxDefects`
are missing or displaced, and may end early (`ImageSizes`). Each loop of
`finalize` is an action: construction from the points near the start, following
points, preceding points in reverse, the same for vertical lines, then removal
of points that are not on both kinds of lines and the links. A read past the
points or lines leads to phase `"undefined"`. `Copy` is the copy constructor,
in which a point that is no longer stored would become a null pointer.
Positions are integers, in the run half pixels.

### LensDetector

`image` is the set of pixels of objects, `mask` those that are still marked
`OBJECT`. `StartFill` is the scan meeting such a pixel, `FillRow` one iteration
of the loop in `findCentroid`, `StopFill` its end together with what `detect`
does with the centroid, including the mark it leaves in the mask (`Mark`). A
point is represented by the pixels it was computed from; all of them are equally
bright. `refineCentroid` weighs what is bright around a centroid, of other
objects too, so the mark may fall on any pixel within `Reach` (`Refined`); `marks`
are the pixels of objects it has hidden from the scan. For an object that begins in
the last column `findCentroid` returns (0, 0), which `detect` refines, adds and
marks all the same (`SkipEdge`). The reference `Components` is defined without
the algorithm, as the closure of a pixel under adjacency. `IsLens` says which
objects the algorithm is made for: a single run of pixels in every row, inside
the limits of the fill.

`PreprocessFFT` and `Preprocess` are the two preprocessors a detector may have.
The former clears a disc of frequencies and opens the mask; what the transforms
and the threshold make of an image is any set of bright pixels.

### Calibrate, GridMath, CalibrationData, LightfieldImage

`pointGridList` and `clusters` are what `addGrid` has collected; every line
carries the number of the line of lenses it shows, which the code does not
know. `StartAverage` (a line of the first grid), `MergeLine` (one of another)
and `FinishAverage` are `averageGrids`, with `at` for the positions of its
loops: a `std::map` is the set of its entries, and merging a line into an
entry takes it out and inserts it at its new key. A position that is not a
number, as a line without points has, is equivalent to every key. `mappers`
keep the first index for a line that was dropped. `CalibrateRotation` and
`CalibrateTranslation` follow the code's geometry to first order in the angle:
a line tilted by `t` moves by `t * d` over a distance `d`. Reading a line that
is not there leads to `"undefined"`. `AddLens` meets clusters in any order.
`Store` and `Read` go through JSON as jsoncpp does (a missing member is null,
null is zero, a value that is not a number is written as null), and
`LightfieldImage` says which crossings of lines the pixels show: `at()` computes
an address (`Address`), so a column too far is the first pixel of the next row,
and what is written twice shows the last crossing (`Shown`).

### CommandLine, FileList, Disk

`pc`, `args` and `optind` are `main` with its two passes of `getopt`; `camera`
is the pointer it uses, `cameras` what `getCameras` found. A download opens
(truncates) and writes each file in two steps, so that a `Crash`, which stands
for a kill and for every exception that leaves `main`, can leave it partial.
Each of the two may also fail unnoticed (`Fails`): `lost` is the set of files
that could not be opened or written and have not been since. For a name the
camera lacks (`Missing`) the file stays incomplete, whatever it sends.
`Hang` is a camera that stops answering. `process` has up to `Workers` pictures
in work. The line grid is read once, before the first picture, and kept in
`loaded`: it is full, of odd size, short (the file was cut off) or empty; with
an empty one OpenCV throws and the process ends, and a file cut off within a
matrix fails the assertions of `serialization.cpp:44`. Undefined behaviour leads
to `"undefined"`, where the model stops: an entry of the list that is read
beyond the end of the buffer, an id that is not listed, no grid to calibrate
from or no line in most of them, a truncated image in `finalize`, a line grid of
odd size. `FileList` keeps the position in the buffer and, for every entry,
whether it lies inside; `MaxPhotos` stands for the memory there is.

### Viewer, RawImage, Metadata, Programs

Opening an image is `OpenRaw`, `OpenMetadata`, `ShowImage`, between which the
command line program goes on. `heap` holds the `QImage`s that exist. The
calibration file of a camera may be absent, partial or whole, since other parts
of the GUI write it. `RawImage` translates the constructor and the passes of
`demosaic` pixel by pixel; memory that nothing was written to is `Undef`.
`Metadata` lists every accessor by path and kind; `Touched` is the tree after
`operator[]` has inserted what it did not find. In `Programs` zooming is only
interleaved with a command line program that has done its work: it neither
reads nor changes anything the program does.

## 3. What is checked

| Run | Instance | Shows |
|---|---|---|
| `threads` | 2 threads, 2 files (one missing, one of the greatest length the counter admits) | `ReplyIsRequested`, `BufferFromOneResource`, refinement of `CameraService`, `LockReleased` |
| `parallel` | 3 workers, 5 images of 2 cameras, one flat | `ClustersPartitionGrids`, `GridsExplained` (`EveryImageUsed`, `FewStrangers`), `CalibrationEnds` |
| `race` | 2 workers, images of 2 cameras | violation: `SameCamera` |
| `single` | 1 camera, 2 photos, 1 show event, 2 downloads, 1 failed open or write | `NoUndefined`, `PhotosSaved` (`NamesIntact`, `EveryPhotoSaved`), `FormFollowsDownload` (`ButtonsOffWhileDownloading`, `QuietAfterDownload`), `SessionProgresses` (`FirstDownloadEnds`, `ButtonsReturn`, `CloseCompletes`) |
| `switch` | 2 cameras, 1 download, 2 failed opens or writes | `PairsIntact` even if the list is replaced under a download |
| `reshow` | 2 show events | violation: `PointersValid` |
| `second` | 2 downloads | violation: `DownloadsExecuted` |
| `flow` | 4 images, one flat, 4 attempts, 2 crashes, 2 failed opens or writes | `CrashDamageBounded` (`StoredIsComplete`, `OneSpoiltPerLoss`, `UndefinedCaused`), `AttemptEnds` |
| `lattice` | 9 x 6 lenses, rotated, one missing or displaced anywhere | `LatticeRecovered` (`LinesMatch`, `OneVerticalLine`, `LinesInOrder`), `GridConsistent` (`OnBothLines`, `SubgridsAgree`, order of coordinates), `LossConfined`, `CompleteImageDefined` |
| `masks` | all 32768 images of 5 x 3 pixels, both preprocessors, fill limited to 2, marks one pixel off | `SpectrumSymmetric`, `LensesFound` (`SearchInRow`, `EveryPixelCounted`, `OnePointPerLens`, `FinalizedWithPoints`), `DetectEnds` |
| `average` | 1 to 3 grids of 12 shapes, 2 tilts | `LinesAccounted`, `LatticeAveraged`, `ReadsExplained`, `ArrayMeasured`, `DataRestored` (`LensComplete`, `RoundTrip`), `SamplesPlaced` |
| `programs` | 2 invocations of 11 command lines, 1 crash or failed open or write, 2 images viewed | `ListParsed`, `UndefinedExplained`, `FilesConsistent` (`DamageBounded`, `MetadataFirst`), `ResultsComplete` (`SuccessMeansDone`, `PicturesCalibrated`), `ViewerConsistent` (`ImagesOwned`, `ZoomConsistent`, `OwnCalibration`), `RawDecoded`, `AccessorsIndependent`, `InvocationEnds` |

A property with names in parentheses is the conjunction of these; each is
defined and explained in the module.

`LatticeAveraged` compares `averageGrids` with a reference that knows which
lines belong together: the target has the lines most images show, at the mean of
their positions, and the mappers lead there. It is stated for lines the first
image shows, since the limit for horizontal lines exceeds their distance.
`ArrayMeasured` says that the rotation is the size of the tilt, and bounds the
translation from both sides by the distances of lines from the mean of the lines
of the same lenses. `GridConsistent` holds for whatever points are added, `LatticeRecovered` for
those of a lattice. `RawDecoded` compares the decoder with a file read as a sequence of half bytes.
`LossConfined` says which points a lens out of place may cost: those of its row
if it is too far up or down, those of its column and the two beside it if it is
too far aside, none while its position still tells its lines. A stronger bound
is false: the key of a line follows its points, so that the line may lose the
rest of its column to the next one. `SamplesPlaced` says what an odd number of
vertical lines does, too.
`UndefinedExplained` and `ReadsExplained` list the causes of undefined behaviour
and say that there are no others. `InvocationEnds` is the place
where a camera without an answer shows: it is the only thing that can keep an
invocation from ending.

The three violations are places where a comment of the repository says one thing
and the code does another; "findings" in `PROJECT.json` quotes both.

* `race`: `addGrid` compares the serial number before it takes the lock, so
  grids of two cameras can end up in one calibration. `FewStrangers` bounds the
  damage: fewer foreign grids than workers.
* `reshow`: every show event of the main window replaces the camera list, but
  the photo list is only refilled when the current index changes.
* `second`: the download thread never leaves its event loop, so a second
  `start()` has no effect.

### Bounds

* Two threads are all the application has (GUI and download). The theorems
  cover any number.
* `PacketValues` is 3 instead of 256, and the long file has 2 full packets: the
  longest that fits. A file one packet longer would never end with the counter
  wrapping (`FitsCounter` is the hypothesis that excludes it; in the code, that
  is 16 MiB).
* Three workers and five images let two workers race while a third holds the
  lock, with a foreign image, a flat image and two lens configurations.
* Two photos and two downloads are enough for a signal of one download to meet
  one of the next; two show events for a list that outlives its cameras.
* One failed open or write in `single`, two in `switch`: one for each file of a
  name. None in `reshow` and `second`, whose violations do not need any.
* Four calibration images instead of 62: one flat, one spoilt by a crash or a
  failure, two left; of the three that are not flat two have no line in most
  of them if the third is lost. Two crashes and
  two failures in four attempts let any two of them hit the same attempt
  sequence at every pair of steps.
* The lattice has 9 columns, the fewest that satisfy the six lines read from the
  first third on, and 12 image rows; constants are those of the code in units of
  half a pixel (`MAX_DIFF` 6, `CONSTRUCT_LIM` 40, six header lines). Its
  rotation is stronger than a camera's so that columns drift by more than
  `MAX_DIFF` over the few rows. A lens is displaced by up to two pixels aside,
  from 1.5 on within reach of the next column, or by
  one half, 2.5 or 4 pixels up or down, the last out of reach of its row.
* `MAX_LENS_SIZE` is 2 instead of 15 so that objects reach the limit of the fill
  to all sides in an image of 5 x 3 pixels, which still has room for several
  lenses, lenses that touch at a corner and fused ones. `Reach` is 1 instead of
  18: enough for the mark of one lens to fall on its neighbour.
* `HIGHPASS_CUTOFF` is 1 instead of 10 for the same reason; the disc still wraps
  around all four sides.
* `average` has three lines of lenses each way, of which an image shows any
  non-empty subset, shifted by half a pixel either way, and two shapes in which
  a line has lost all its points or all but one. Distances of lines and limits
  are the code's, in half pixels. Three grids are the fewest for which a
  majority, a minority and a tie differ (with two grids one copy is no
  majority). The third grid has the lens configuration of the first, so that
  two configurations are met in either order of their hashes and one of them has
  two images with different focal lengths.
* `programs` has two photos of the same name in different directories of the
  camera, two calibration images, one of them flat, another file and a name the
  camera lacks. The photo and the other calibration image are unmatched with
  each other. That is enough for a whole image beside a spoilt one, and for two
  pictures in work at once. Two invocations let each use what the
  other left. `MaxFaults` is one crash, or one lost file at a time, at any step
  of either: crashes and failures are counted together to keep the run small,
  and `flow` combines two of each. The lists the camera sends
  have entries of the expected length, of a longer and a shorter one, and of
  length zero. Images have 6 x 4 pixels, so that every pass of `demosaic` has
  pixels, all four borders are copied and width and height differ. Files are
  read when whole, cut off within the third read (`Prefixed`), and empty, as a
  download that has only opened its file leaves them. Two zooms reach the limit
  of the scale.

No symmetry reduction is used.

### Fairness

Weak fairness of threads only: a thread that can take a step takes one, and a
transfer ends, successfully or not. In `CameraAccess` a connected camera
eventually boots; nothing is assumed about the order in which `std::mutex`
admits threads, so the property is that the lock comes free, not that each
caller gets it. In `DownloadSession` the two threads are fair; the user need
not do anything. In `CalibrationFlow` the GUI thread is fair while it does not
wait for the user; crashes are never forced. `DetectEnds` needs only that the
sequential program goes on. In `Programs` only the command
line program is fair, and only its own steps: invocations, crashes, a hanging
camera and the viewer are never forced.

## 4. What is proved

All theorems hold for every value of the constants that satisfies the named
assumptions of the modules. TLC evaluates those assumptions in the runs.

`CameraAccessProofs`, for any sets of threads and files and any contents:

* `TypeCorrect`: `TypeOK`. Inductive together with `RequestInv`, which says
  that a call only reaches the steps of its own operation.
* `RepliesCorrect`, `BuffersInOrder`: under `FitsCounter`, `ReplyIsRequested`
  and `BufferFromOneResource`. The replies alone are not inductive. `LockInv`
  (between lock and unlock exactly when owner of the mutex) makes the holder the
  only thread that changes the device; `LoadedInv` (the device holds what the
  holder asked for, as long as its handle is valid) ties the device to the
  request; `BufferInv` (the packets collected are a prefix of what is loaded)
  carries this through the download. `IndInv` is their conjunction.
* `CameraImplementsService`: under `FitsCounter`, every step of `CameraAccess`
  is a step of `CameraService` or leaves it unchanged. A call is pending from
  `Call` to `Return` or `Throw`.

`CalibratorProofs`, for any images and lens configurations and any finite set
of workers:

* `ClustersCorrect`: `ClustersPartitionGrids`. Between the two stores of
  `addGrid` the property is false; the inductive form counts the grids that
  have been filed (`Clustered`) and says that the clusters partition these.
  `TaskInv` says that the grid in between is the last of the list.
* `GridsCorrect`: `GridsExplained`. `UsedInv` puts every usable image in exactly
  one place (not taken yet, with one worker, once in the list), which no
  interleaving changes. `FewStrangers` alone is not inductive: a worker that
  passed the check while no serial number was stored will add a stranger later.
  `StrangerInv` counts those workers with the strangers already added; the sum
  is less than the number of workers, since one of them stored the serial
  number.

`CalibrationFlowProofs`, for any number of images, attempts, crashes and failed
opens and writes:

* `DamageBounded`: `CrashDamageBounded`. `IndInv` says that nothing was written
  without the directory (`DirInv`), the file in work is partial if it was opened
  (`WriteInv`, `Opened`) and the grids in work lack at most one image per loss
  (`GridsInv`). `OneSpoiltPerLoss` is not inductive: a failed open leaves no
  partial file but a gap, which the grids lack later. `SpoiltInv` counts partial
  files and the gaps the download has passed together, and being at the step
  that writes excuses one more only if the file was really opened.

`DownloadSessionProofs`, for any finite set of cameras and any numbers of
photos, show events, downloads and failures where nothing else is said:

* `PairsKept`: `PairsIntact`. `PairInv` allows one photo, the one in work, to
  have its metadata in front of its image, and one broken pair per failure.
* `FormFollows`: `FormFollowsDownload`. The property speaks of what the form
  shows, which lags behind the download thread by the queue. `FormInv` says that
  the last queued signal of each kind agrees with the thread (`ButtonInv`,
  `RangeInv`, `ValueInv`), and the form does once none is queued.
* `SingleCameraDefined`: `NoUndefined` with a single camera, if the window is
  shown at most once. `OnceInv`: the one initialisation precedes every reference
  to a camera. `ListInv`: the list is filled once, so rows stay valid from
  selection to download. The hypothesis is needed: with two show events the run
  `reshow` has photos of destroyed cameras.
* `SingleCameraSaved`: `PhotosSaved` if, besides, photos have different times.
  `NameInv` ties the name to the photo in work, `SavedInv` the number of files
  to the count, up to the number of failures. Section 5 says what happens without these hypotheses.

`LensDetectorProofs`, for images of any size, lenses of any size, any reach of
the refinement and any natural cutoff (`CutoffAssumption`):

* `DetectCorrect`: `LensesFound` in full. `DetectInv` consists of the limits of
  the fill (`FillInv`), where the pixels are (`CountInv`: in the mask, under a
  mark, in one point or in the fill, and in one of these at most), what the scan
  has left behind (`ScanInv`), that a fill stays in the object it began in, and that
  a lens no mark has hit is untouched, or a point, or the object the fill is in
  with exactly its rows above the current one covered (`LensInv`). The last needs that an object is the least
  set that contains a pixel and is closed under adjacency (`ComponentLeast`,
  `ComponentClosed`, `ComponentSame`), although it is defined by a recursive
  function: these are proved by taking the least number of rounds that would
  refute them (`LeastNat`).
* `ClearedSymmetric`: `SpectrumSymmetric`, from the symmetry of the disc and the uniqueness of remainders.

`ProgramsProofs`, for any command lines, lists, files, workers, crashes and failures that
satisfy `ProgramAssumption` (the list a camera sends has no more entries than
the camera has photos, there is memory for these, `-f` names other files than
images), `ListAssumption`, `DiskAssumption` and `ViewerAssumption`:

* `ListCorrect`: `ListParsed`, by `ParseInv`: the entries found are those in
  front of the position of the parser, and none was read beyond the end.
* `UndefinedBounded`, `DirectoryConsistent`, `ResultsThere`:
  `UndefinedExplained`, `FilesConsistent`, `ResultsComplete`. `CliInv` says that
  the camera was prepared for every option that needs it (`CameraInv`), which
  option is being executed (`OptionInv`), that what an option wants is whole or
  still on its list (`TodoInv`), metadata in front of images (`OrderInv`), that
  the file in work is partial (`WriteInv`), each unless it is among the `lost`
  files, and that other partial files and pictures are in work or due to a crash
  (`SpoiltInv`, `FlatInv`).
* `ViewerCorrect`: `ViewerConsistent`. `OwnerInv` says which `QImage`s exist at
  each step of opening an image, `ZoomInv` when the button is enabled.

* `RawCorrect`: `RawDecoded`, for an image of any size and any bytes
  (`SizeAssumption`). The bytes a file lacks are those of an earlier read, so
  every sample exists once a single read has succeeded, which takes three bytes.
* `AccessorsCorrect`: `AccessorsIndependent`, for metadata of any values: the
  nodes `operator[]` inserts for one accessor are on the path of no other.

`PointGridProofs`, for any points, added in any order (`PointGridAssumption`):

* `GridCorrect`: `GridConsistent`. `PointInv` says which points are stored,
  `SweepInv` that the sweep puts each of them on one line, although the point it
  starts from is added twice: that is the first point of its line, so it joins
  the same line again. Without this half of the invariant nothing excludes a
  point on two lines. `HorizontalInv` and `VerticalInv` carry this to the second
  sweep, where points of a vertical line lie on horizontal lines of its subgrid
  and no map is empty when `mapAdd` looks for the closest line. `GridInv` is
  what `finalize` and the copy leave behind.

`CalibrateProofs`, for any images, limits and lens configurations that satisfy
`CalibrateAssumption` and `LimitAssumption` (lenses were found in every image;
limits are positive). Sums and averages are folds over sequences of fractions.
The proofs use how the mean moves with one more value (`MeanAppend`), that it
lies between the values (`MeanInside`), and that `filteredAverage` never filters
out everything, so that it is a number and lies between values, too
(`SomeNear`, `FilteredInside`: not all values can be more than two sigma from
their mean).

* `AccountsCorrect`: `LinesAccounted`, by `AccInv`. The mean of an entry moves
  with every line merged into it, and the entry is filed under the mean: if the
  new key were that of a neighbour, `emplace` would have no effect and the lines
  of the entry would be lost. The proof shows that no neighbour can be where the
  mean moves to, since the line went to the nearest entry (`MeanNotAt`).
* `LatticeCorrect`: `LatticeAveraged`, by `LatticeInv`: for images of one array
  an average lies between two of its lines, so that the closest entry to a line
  is always that of the same line of lenses.
* `ReadsCorrect`: `ReadsExplained`, by `ReadInv`.
* `DataCorrect`: `DataRestored`, by `FileInv`: the clusters that have been
  merged have an entry each (`LensInv`), and what was stored is what the file
  holds (`DataInv`). `RoundTripHolds` is about every value that can be stored.
* `SamplesCorrect`: `SamplesPlaced`, from `FileInv` and the arithmetic of
  addresses: of two crossings with one address one is in the column too far.
* `ArrayCorrect`: `ArrayMeasured`, by `MeasureInv` (rotation and translation are
  what the inputs yield) and the facts behind `LatticeCorrect` (`LatticeFound`:
  the target of a line is at the mean of the lines it belongs with). The
  rotation takes the tilt away from every line, so each line measures the
  translation up to its own distance from that mean, and averages stay between.

Only model-checked:

* Liveness (`LockReleased`, `CalibrationEnds`, `SessionProgresses`,
  `AttemptEnds`, `DetectEnds`, `InvocationEnds`), which is out of the prover's
  reach.
* `LatticeRecovered`, `LossConfined` and `CompleteImageDefined` of `PointGrid`:
  that a lattice is recovered depends on the geometry of the lenses and on the
  constants of the code. For lenses elsewhere than the run has them the
  properties are false (section 5 has examples), and there is no more general
  geometry in the source to state them for.

## 5. Observations

Met while modelling; each is part of a model, none has a run of its own.

* `lib/camera.cpp:158`: the status of a request is read and not inspected. For
  a name the camera does not hold, `getFile` returns whatever was loaded before;
  `AnswersTo` says so.
* `lib/camera.cpp:86`: the packet counter wraps after 256 packets.
* `ui/cameraview/cameracalibrator.cpp:70`: the directory for a camera is only
  created together with the cache directory. If that exists already, no file can
  be written and `calibrate()` runs without a grid (`UndefinedCaused`).
* Switching the camera during a download can make the download thread read a
  row that is gone; `NoUndefined` is therefore stated for one camera only.
* `lib/calibration/pointgrid.cpp:134` and `:184` read past the end for images
  with few lenses; `CompleteImageDefined` is stated for complete images.
* `lib/calibration/pointgrid.cpp:154`: the point the sweep starts from is added
  twice, and so is the line at `:207`; points may occur twice in a line.
* If every lens of a column near the start is missing, the column gets no line
  and the columns after it change their parity; `HeaderComplete` excludes it.
* `lib/calibration/pointgrid.cpp:151`: of two lines with equal first positions
  one is dropped by the insertion into the new map.
* `lib/calibration/lensdetector.cpp:61` says that objects at the edge are
  skipped; they still yield a point, near the corner of the image and out of the
  order `PointGrid::addPoint` asks for. In general points are added in the order
  of the topmost pixels of lenses, not of their centroids.
* `lib/calibration/lensdetector.cpp:278`: the mark goes to the refined centroid,
  which may lie on another object that is not processed yet; its pixel is
  then missing, and the rest of the object may become several points. `OnePointPerLens` and `EveryPixelCounted`
  are stated for what no mark has hit. If nothing within the discs of
  `refineCentroid` is bright, its estimate is 0/0.
* `lib/calibration/lensdetector.cpp:182`: the two mixed terms of the bilinear
  interpolation have their weights exchanged (`f10` is a pixel below and is
  weighted by the horizontal offset).
* `ui/cameraview/imagelistmodel.cpp:85`: output files are named by a time with a
  resolution of a second; photos of one second overwrite each other. The runs
  use different times.
* `ui/config/lyliconfig.cpp:66` and `lib/main.cpp:289` ignore the result of the
  parser: a calibration file cut off by a crash counts as calibration data and
  is never replaced.
* `lib/calibration/gridmath.cpp:28`: `LIMIT_HORIZONTAL` (17 pixels) exceeds the
  distance of two horizontal lines, so a line that the first image lacks is
  merged into its neighbour. `:123`: a line that was dropped keeps 0 in the
  mapper and is compared with the first line. `:90`: `front()` of an empty list
  if no image was usable.
* `lib/calibration/pointgrid.cpp:272` keeps horizontal lines it has emptied.
  Their position is 0/0, which is written as null and read as 0, and
  `lib/calibration/calibrator.cpp:198` reads the front of an empty vector.
* `lib/calibration/calibrator.cpp:169`: `acos` loses the sign of the angle, so
  the translation is right for one direction of tilt only, to which
  `ArrayMeasured` is limited; for horizontal lines the intersection line of
  `:210` is y = -1640, not through the middle of the image as the comment says.
  The focal length of a cluster is that of its first image.
  `Calibrator::Impl::createTarget` is declared and not defined.
* `lib/calibration/mathutil.h:46`: rounding can make the variance of equal
  values negative, and the average 0/0. The model's fractions do not round.
* `lib/image/lightfieldimage.cpp:67`: with an odd number of vertical lines the
  samples of the last one replace the first pixel of the next row or, below the
  last row, are written past the end of the image. The comment above speaks of
  subgrid A, the code samples both.
* `lib/filesystem/filesystemaccess.cpp:68`: `tm_isdst` is not initialised before
  `mktime`. `:82`: an entry length of zero fills the memory,
  and with less than 124 the last entry is read past the buffer.
* `lib/main.cpp`: `-t`, `-c` and `-p` with a directory that cannot be entered
  end with status 0, and so does every option whose files could not be opened
  or written; `-d` does not compare the id with the list.
* `lib/image/metadata.h:141` declares an accessor for the colour matrix that is
  not defined.
* `ui/imageview/viewerform.cpp:94` and `:109` dereference a null pointer if no
  image was opened; zooming before that changes the scale, but neither the
  picture nor the button.
* `lib/calibration/fftpreprocessor.cpp:77`: the mean plus 20 may exceed the
  eight bits it is stored in.

## 6. Not modelled

* What OpenCV computes: Fourier transforms, thresholds, the whole of
  `Preprocessor` (calls of OpenCV in a fixed order, no state, no branch), line
  fitting, the affine warp; and where the refinement of `LensDetector` puts a centroid. All
  are floating-point functions of images, without control flow that a state
  model could go through.
* The rounding of floats: `Rationals` computes exactly.
* Time stamps and hashes of photos, the fields of `CameraInformation`, drawing,
  the gamma table, directory browsing and the texts of the wizard.
* The code generator `tools/pycppjson` and `tools/calibstats`, which repeats the
  loop of `-c` and prints statistics.
* libusbpp, of which only the use by `lib/camera.cpp` is modelled.
* `lensfilter.cpp`, which is commented out in the source.

## 7. Plan

Done: `CameraAccess` with `CameraService`; `Calibrator`; `DownloadSession`;
`CalibrationFlow`; `LensDetector` with `Preprocessing`; `Programs` with
`CommandLine`, `FileList`, `Disk`, `Viewer`, `RawImage` and `Metadata`;
`PointGrid`; `Calibrate` with `GridMath`, `CalibrationData` and
`LightfieldImage`. All of these have proofs of their safety properties, with the
exceptions of section 4.

What remains is a statement of the geometry for which `LatticeRecovered` holds
(distances, jitter and tilt, in terms of the constants of
`lib/calibration/pointgrid.cpp`), from which it could be proved.
