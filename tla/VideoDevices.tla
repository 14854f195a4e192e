---------------------------- MODULE VideoDevices ----------------------------
(***************************************************************************)
(* Which /dev/video<n> becomes the left eye, the right eye and the main    *)
(* camera: VideoStreamer::initDevices and, in an earlier form, the demo    *)
(* video_stream.                                                           *)
(*                                                                         *)
(* Stereo camera and main camera each scan /dev for themselves, into a     *)
(* file_card_map of their own: list the directory, drop the links whose    *)
(* target is listed, then open the files one by one and ask each for the   *)
(* name of its card.  Cameras come and go meanwhile, so listing, every     *)
(* query and every search of the map are steps of their own.  video_stream *)
(* scans once; its one map has the place of the stereo camera's here.      *)
(*                                                                         *)
(* A device file is its number n.  The names of cards are data: all that   *)
(* counts is which of the three lists of the configuration they are in.    *)
(***************************************************************************)
EXTENDS Integers

CONSTANTS
    Nodes,          \* the numbers of the device files there can be
    LinkTo,         \* the node a file is a link to, the file itself if none
    Cards,          \* the names capture devices report
    LeftNames,      \* root[...]["stereo_camera"]["left"]["names"]
    RightNames,     \* root[...]["stereo_camera"]["right"]["names"]
    MainNames,      \* root[...]["main_camera"]["names"]
    stereo_flag,    \* look for both eyes, or for the left one only
    MaxChanges      \* bound: cameras plugged in or out during the scans

Absent    == "absent"
NoCapture == "no capture"
NoFile    == -1

\* A link leads to a node and not to another link, as those of udev do.
ASSUME DevicesAssumption ==
    /\ Nodes \subseteq 0 .. 99
    /\ LinkTo \in [Nodes -> Nodes]
    /\ \A n \in Nodes : LinkTo[LinkTo[n]] = LinkTo[n]
    /\ Absent \notin Cards
    /\ NoCapture \notin Cards
    /\ LeftNames \cup RightNames \cup MainNames \subseteq Cards
    /\ stereo_flag \in BOOLEAN
    /\ MaxChanges \in Nat

\* The lists of the shipped configurations: the eyes may share names, the main
\* camera shares none with them.
ASSUME NamesAssumption == MainNames \cap (LeftNames \cup RightNames) = {}

VARIABLES
    dev,            \* the kernel: what is behind each node that is no link
    changed,        \* history: nodes plugged in or out since the first scan
    changes,        \* how often that happened
    file_card_map,  \* of the stereo and of the main camera object
    files,          \* the files of the running scan that are still to query
    left_dev_file,  \* stereo_camera_left_dev_file
    right_dev_file, \* stereo_camera_right_dev_file
    camera_dev_file,
    initialized,    \* the camera objects that isValid() says yes for
    pc

kernel_vars == <<dev, changed, changes>>
found_vars  == <<left_dev_file, right_dev_file, camera_dev_file, initialized>>
vars        == <<kernel_vars, file_card_map, files, found_vars, pc>>

Objects  == {"stereo", "main"}
Physical == {n \in Nodes : LinkTo[n] = n}
Files    == Nodes \cup {NoFile}
Labels   == {"list_stereo", "query_stereo", "left", "right",
             "list_main", "query_main", "main", "ready",
             "demo_list", "demo_query", "demo_left", "demo_right",
             "demo_main", "demo_ready", "failed"}

TypeOK ==
    /\ dev \in [Nodes -> Cards \cup {Absent, NoCapture}]
    /\ changed \subseteq Nodes
    /\ changes \in Nat
    /\ file_card_map \in [Objects -> [Nodes -> Cards \cup {Absent}]]
    /\ files \subseteq Nodes
    /\ {left_dev_file, right_dev_file, camera_dev_file} \subseteq Files
    /\ initialized \subseteq Objects
    /\ pc \in Labels

Init ==
    /\ dev \in [Nodes -> Cards \cup {Absent, NoCapture}]
    /\ \A n \in Nodes \ Physical : dev[n] = Absent
    /\ changed = {}
    /\ changes = 0
    /\ file_card_map = [object \in Objects |-> [n \in Nodes |-> Absent]]
    /\ files = {}
    /\ left_dev_file = NoFile
    /\ right_dev_file = NoFile
    /\ camera_dev_file = NoFile
    /\ initialized = {}
    /\ pc \in {"list_stereo", "demo_list"}

Goto(label) == pc' = label

-----------------------------------------------------------------------------
(* The kernel. *)

\* A camera is plugged in or out.
Replug(n, card) ==
    /\ changes < MaxChanges
    /\ n \in Physical
    /\ dev[n] = Absent \/ card = Absent
    /\ dev[n] # card
    /\ dev' = [dev EXCEPT ![n] = card]
    /\ changed' = changed \cup {n}
    /\ changes' = changes + 1
    /\ UNCHANGED <<file_card_map, files, found_vars, pc>>

-----------------------------------------------------------------------------
(* _init_dev_files(). *)

\* What readdir() gives: the links are there whether or not they dangle.
InDirectory(n) == n \in Physical => dev[n] # Absent

\* Mutant of Listed: the links stay in the list.
ListedWithLinks == {n \in Nodes : InDirectory(n)}

\* The files that are not links, or link to something that is not listed.
Listed ==
    {n \in Nodes : /\ InDirectory(n)
                   /\ n \notin Physical => ~InDirectory(LinkTo[n])}

\* The directory is read, or cannot be: then the map stays as it is.
ListFiles(query, find) ==
    /\ \/ files' = Listed
       \/ files' = {}
    /\ Goto(IF files' = {} THEN find ELSE query)
    /\ UNCHANGED <<kernel_vars, file_card_map, found_vars>>

\* The list is sorted by the numbers: the file that is next.
IsNext(n) == n \in files /\ \A m \in files : n <= m

\* Mutant of QueryFile: V4L2_CAP_VIDEO_CAPTURE is not asked for.
QueryFileUnchecked(object, find) ==
    \E n \in files :
        /\ IsNext(n)
        /\ \/ UNCHANGED file_card_map
           \/ file_card_map' =
                  [file_card_map EXCEPT ![object][n] = dev[LinkTo[n]]]
        /\ files' = files \ {n}
        /\ pc' = IF files' = {} THEN find ELSE pc
        /\ UNCHANGED <<kernel_vars, found_vars>>

\* The next file is queried.  One that cannot be opened, does not answer or is no capture device does not get into the map.
QueryFile(object, find) ==
    \E n \in files :
        /\ IsNext(n)
        /\ \/ UNCHANGED file_card_map
           \/ /\ dev[LinkTo[n]] \in Cards
              /\ file_card_map' =
                     [file_card_map EXCEPT ![object][n] = dev[LinkTo[n]]]
        /\ files' = files \ {n}
        /\ pc' = IF files' = {} THEN find ELSE pc
        /\ UNCHANGED <<kernel_vars, found_vars>>

\* The files of the map whose card has one of the names.
Matching(object, names) ==
    {n \in Nodes : file_card_map[object][n] \in names}

\* std::map goes by the file's name: "/dev/video10" is before "/dev/video2".
NameRank(n) == IF n < 10 THEN 11 * n ELSE 11 * (n \div 10) + (n % 10) + 1

\* Mutant of IsFirst: the search goes on after the match and keeps the last.
IsLast(n, candidates) ==
    /\ n \in candidates
    /\ \A m \in candidates : NameRank(m) <= NameRank(n)

IsFirst(n, candidates) ==
    /\ n \in candidates
    /\ \A m \in candidates : NameRank(n) <= NameRank(m)

-----------------------------------------------------------------------------
(* V4L2StereoCamera::init(). *)

ListStereo  == pc = "list_stereo" /\ ListFiles("query_stereo", "left")
QueryStereo == pc = "query_stereo" /\ QueryFile("stereo", "left")

\* _find_and_remove_dev_file_by_strs() takes the file out of the map.
Remove(n) ==
    file_card_map' = [file_card_map EXCEPT !["stereo"][n] = Absent]

\* _configure_camera(): one of the three calls of v4l2-ctl may fail.
ConfigureCamera(next) == Goto(next) \/ Goto("failed")

\* The left eye is found and configured; in mono mode init() is through, with
\* `initialized` not set.
FindLeft ==
    /\ pc = "left"
    /\ \E n \in Nodes :
           /\ IsFirst(n, Matching("stereo", LeftNames))
           /\ left_dev_file' = n
           /\ Remove(n)
    /\ ConfigureCamera(IF stereo_flag THEN "right" ELSE "list_main")
    /\ UNCHANGED <<kernel_vars, files, right_dev_file, camera_dev_file,
                   initialized>>

\* Mutant of FindRight: a right eye that cannot be configured is kept silent.
FindRightLenient ==
    /\ pc = "right"
    /\ \/ /\ Matching("stereo", RightNames) = {}
          /\ UNCHANGED <<file_card_map, right_dev_file>>
       \/ \E n \in Nodes :
              /\ IsFirst(n, Matching("stereo", RightNames))
              /\ right_dev_file' = n
              /\ Remove(n)
    /\ initialized' = initialized \cup {"stereo"}
    /\ Goto("list_main")
    /\ UNCHANGED <<kernel_vars, files, left_dev_file, camera_dev_file>>

FindRight ==
    /\ pc = "right"
    /\ \E n \in Nodes :
           /\ IsFirst(n, Matching("stereo", RightNames))
           /\ right_dev_file' = n
           /\ Remove(n)
    /\ ConfigureCamera("list_main")
    /\ initialized' =
           IF pc' = "failed" THEN initialized ELSE initialized \cup {"stereo"}
    /\ UNCHANGED <<kernel_vars, files, left_dev_file, camera_dev_file>>

\* No file for an eye: init() returns -1, and so does initDevices().
EyeNotFound ==
    /\ \/ pc = "left" /\ Matching("stereo", LeftNames) = {}
       \/ pc = "right" /\ Matching("stereo", RightNames) = {}
    /\ Goto("failed")
    /\ UNCHANGED <<kernel_vars, file_card_map, files, found_vars>>

-----------------------------------------------------------------------------
(* V4L2Camera::init(). *)

ListMain  == pc = "list_main" /\ ListFiles("query_main", "main")
QueryMain == pc = "query_main" /\ QueryFile("main", "main")

\* Mutant of FindMain: it searches with the names of the right eye.
FindMainByRight ==
    /\ pc = "main"
    /\ \E n \in Nodes :
           /\ IsFirst(n, Matching("main", RightNames))
           /\ camera_dev_file' = n
    /\ initialized' = initialized \cup {"main"}
    /\ Goto("ready")
    /\ UNCHANGED <<kernel_vars, file_card_map, files, left_dev_file,
                   right_dev_file>>

\* _find_dev_file_by_strs() leaves the map alone.
FindMain ==
    /\ pc = "main"
    /\ \E n \in Nodes :
           /\ IsFirst(n, Matching("main", MainNames))
           /\ camera_dev_file' = n
    /\ initialized' = initialized \cup {"main"}
    /\ Goto("ready")
    /\ UNCHANGED <<kernel_vars, file_card_map, files, left_dev_file,
                   right_dev_file>>

\* Without a main camera initDevices() warns and returns 0 all the same.
MainNotFound ==
    /\ pc = "main"
    /\ Matching("main", MainNames) = {}
    /\ Goto("ready")
    /\ UNCHANGED <<kernel_vars, file_card_map, files, found_vars>>

-----------------------------------------------------------------------------
(* video_stream: init_dev_files() and the searches of init_gstreamer().  It *)
(* does without an eye that is not found, and takes every file it finds out *)
(* of the map.                                                              *)

DemoListFiles == pc = "demo_list" /\ ListFiles("demo_query", "demo_left")
DemoQueryFile == pc = "demo_query" /\ QueryFile("stereo", "demo_left")

\* find_and_remove_dev_file_by_strs().
DemoTake(names, n) ==
    /\ IsFirst(n, Matching("stereo", names))
    /\ Remove(n)

\* In mono mode there is no look for the right eye.
AfterDemoLeft == IF stereo_flag THEN "demo_right" ELSE "demo_main"

DemoFindLeft ==
    /\ pc = "demo_left"
    /\ \E n \in Nodes : DemoTake(LeftNames, n) /\ left_dev_file' = n
    /\ ConfigureCamera(AfterDemoLeft)
    /\ UNCHANGED <<kernel_vars, files, right_dev_file, camera_dev_file,
                   initialized>>

DemoFindRight ==
    /\ pc = "demo_right"
    /\ \E n \in Nodes : DemoTake(RightNames, n) /\ right_dev_file' = n
    /\ ConfigureCamera("demo_main")
    /\ UNCHANGED <<kernel_vars, files, left_dev_file, camera_dev_file,
                   initialized>>

DemoFindMain ==
    /\ pc = "demo_main"
    /\ \E n \in Nodes : DemoTake(MainNames, n) /\ camera_dev_file' = n
    /\ Goto("demo_ready")
    /\ UNCHANGED <<kernel_vars, files, left_dev_file, right_dev_file,
                   initialized>>

DemoNotFound ==
    /\ \/ /\ pc = "demo_left"
          /\ Matching("stereo", LeftNames) = {}
          /\ Goto(AfterDemoLeft)
       \/ /\ pc = "demo_right"
          /\ Matching("stereo", RightNames) = {}
          /\ Goto("demo_main")
       \/ /\ pc = "demo_main"
          /\ Matching("stereo", MainNames) = {}
          /\ Goto("demo_ready")
    /\ UNCHANGED <<kernel_vars, file_card_map, files, found_vars>>

Terminated == pc \in {"ready", "demo_ready", "failed"} /\ UNCHANGED vars

-----------------------------------------------------------------------------

InitDevices ==
    \/ ListStereo
    \/ QueryStereo
    \/ FindLeft
    \/ FindRight
    \/ EyeNotFound
    \/ ListMain
    \/ QueryMain
    \/ FindMain
    \/ MainNotFound

Demo ==
    \/ DemoListFiles
    \/ DemoQueryFile
    \/ DemoFindLeft
    \/ DemoFindRight
    \/ DemoFindMain
    \/ DemoNotFound

Next ==
    \/ \E n \in Nodes, card \in Cards \cup {Absent, NoCapture} : Replug(n, card)
    \/ InitDevices
    \/ Demo
    \/ Terminated

Spec == Init /\ [][Next]_vars

-----------------------------------------------------------------------------
(* Properties. *)

Same(file, other) ==
    file # NoFile /\ other # NoFile /\ LinkTo[file] = LinkTo[other]

\* The two eyes are two cameras, although the same name may find both and a
\* camera can have several files (_init_dev_files, _find_and_remove_...): unless
\* the camera was plugged in or out between the steps of the scan.
EyesAreDistinct ==
    Same(left_dev_file, right_dev_file) => LinkTo[left_dev_file] \in changed

\* The main camera, which VideoStreamer searches for in a scan of its own that
\* knows nothing of the files taken by the stereo camera, is neither of the
\* eyes: with the same reservation.
MainIsNoEye ==
    \A eye \in {left_dev_file, right_dev_file} :
        Same(eye, camera_dev_file) => LinkTo[eye] \in changed

\* What VideoStreamer::initGStreamer asks for is there when initDevices() has
\* returned 0: a file for every eye, and a main camera exactly if it is valid.
ReadyMeansSources ==
    pc = "ready" =>
        /\ left_dev_file # NoFile
        /\ stereo_flag <=> right_dev_file # NoFile
        /\ "main" \in initialized <=> camera_dev_file # NoFile

\* Two eyes of the same name are told apart by the order of the map: the left
\* one has the lower number, unless it has two digits and the right one has
\* one.  (The numerical order of the scan does not get into the map.)
EyesInOrder ==
    (/\ changed = {}
     /\ right_dev_file # NoFile
     /\ dev[LinkTo[right_dev_file]] \in LeftNames) =>
        \/ left_dev_file < right_dev_file
        \/ right_dev_file < 10 /\ 10 <= left_dev_file
=============================================================================
