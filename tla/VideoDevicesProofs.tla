------------------------- MODULE VideoDevicesProofs -------------------------
(***************************************************************************)
(* Proofs about VideoDevices, for any set of device files, links, cards    *)
(* and names, and any number of cameras plugged in and out.                *)
(*                                                                         *)
(* The invariant says what the scans know.  As long as a camera was not    *)
(* touched, a map entry and a chosen file still have the card they were    *)
(* taken for (Known, Chosen); two files of the stereo camera that lead to  *)
(* the same camera can only be links that were listed while it was out     *)
(* (Spread); a chosen eye is out of the map (Taken); and no file that is   *)
(* left in the map, or was the right eye's, could have been the left one   *)
(* and is before it (Ordered).                                             *)
(***************************************************************************)
EXTENDS VideoDevices, TLAPS

Known ==
    \A object \in Objects, n \in Nodes :
        file_card_map[object][n] # Absent =>
            \/ file_card_map[object][n] = dev[LinkTo[n]]
            \/ LinkTo[n] \in changed

ChosenFor(file, names) ==
    file # NoFile => dev[LinkTo[file]] \in names \/ LinkTo[file] \in changed

Chosen ==
    /\ ChosenFor(left_dev_file, LeftNames)
    /\ ChosenFor(right_dev_file, RightNames)
    /\ ChosenFor(camera_dev_file, MainNames)

\* The files the stereo camera still has before it.
Pending ==
    {n \in Nodes : \/ pc \in {"query_stereo", "demo_query"} /\ n \in files
                   \/ file_card_map["stereo"][n] # Absent}

Spread ==
    \A n, m \in Pending \cup ({left_dev_file} \ {NoFile}) :
        n # m /\ LinkTo[n] = LinkTo[m] =>
            dev[LinkTo[n]] = Absent \/ LinkTo[n] \in changed

Taken ==
    left_dev_file # NoFile => left_dev_file \notin Pending

Ordered ==
    left_dev_file # NoFile =>
        /\ \A m \in Nodes :
               file_card_map["stereo"][m] \in LeftNames =>
                   NameRank(left_dev_file) <= NameRank(m)
        /\ (/\ right_dev_file # NoFile
            /\ changed = {}
            /\ dev[LinkTo[right_dev_file]] \in LeftNames) =>
                   NameRank(left_dev_file) <= NameRank(right_dev_file)

Progress ==
    /\ pc \in {"list_stereo", "demo_list"} =>
           \A n \in Nodes : file_card_map["stereo"][n] = Absent
    /\ pc \in {"list_stereo", "query_stereo", "left",
              "demo_list", "demo_query", "demo_left"} =>
           left_dev_file = NoFile
    /\ pc \in {"list_stereo", "query_stereo", "left", "right",
              "demo_list", "demo_query", "demo_left", "demo_right"} =>
           right_dev_file = NoFile
    /\ pc \in {"right", "demo_right"} => stereo_flag
    /\ pc \in {"right", "list_main", "query_main", "main", "ready"} =>
           left_dev_file # NoFile
    /\ pc \in {"list_main", "query_main", "main", "ready"} =>
           (stereo_flag <=> right_dev_file # NoFile)
    /\ pc \in Labels \ {"ready", "demo_ready"} =>
           camera_dev_file = NoFile /\ "main" \notin initialized
    /\ pc # "demo_ready" =>
           ("main" \in initialized <=> camera_dev_file # NoFile)

Distinct ==
    right_dev_file # NoFile =>
        /\ stereo_flag
        /\ left_dev_file # right_dev_file
        /\ Same(left_dev_file, right_dev_file) =>
               LinkTo[left_dev_file] \in changed

IInv ==
    /\ TypeOK
    /\ Known
    /\ Chosen
    /\ Spread
    /\ Taken
    /\ Ordered
    /\ Progress
    /\ Distinct

-----------------------------------------------------------------------------
(* Type correctness. *)

\* The initial state is well typed.
LEMMA TypeInit == Init => TypeOK
BY DevicesAssumption DEF Init, TypeOK, Objects, Files, Labels, NoFile

\* Every step of initDevices() and of the kernel keeps the types.
LEMMA TypeStep == TypeOK /\ [Next]_vars => TypeOK'
<1> SUFFICES ASSUME TypeOK, [Next]_vars PROVE TypeOK'
  OBVIOUS
<1> USE DEF TypeOK, Objects, Files, Labels, Goto
<1>1. ASSUME NEW n \in Nodes, NEW card \in Cards \cup {Absent, NoCapture},
             Replug(n, card)
      PROVE  TypeOK'
  BY <1>1, DevicesAssumption DEF Replug, found_vars
<1>2. CASE ListStereo
  BY <1>2 DEF ListStereo, ListFiles, Listed, kernel_vars, found_vars
<1>3. CASE QueryStereo
  BY <1>3, DevicesAssumption
     DEF QueryStereo, QueryFile, IsNext, kernel_vars, found_vars
<1>4. CASE FindLeft
  BY <1>4 DEF FindLeft, Remove, ConfigureCamera, kernel_vars
<1>5. CASE FindRight
  <2>1. PICK n \in Nodes : right_dev_file' = n /\ Remove(n)
    BY <1>5 DEF FindRight
  <2>2. file_card_map' \in [Objects -> [Nodes -> Cards \cup {Absent}]]
    BY <2>1 DEF Remove
  <2>3. initialized' \subseteq Objects /\ pc' \in Labels
    BY <1>5 DEF FindRight, ConfigureCamera
  <2>4. UNCHANGED <<kernel_vars, files, left_dev_file, camera_dev_file>>
    BY <1>5 DEF FindRight
  <2> QED BY <2>1, <2>2, <2>3, <2>4 DEF kernel_vars
<1>6. CASE EyeNotFound
  BY <1>6 DEF EyeNotFound, kernel_vars, found_vars
<1>7. CASE ListMain
  BY <1>7 DEF ListMain, ListFiles, Listed, kernel_vars, found_vars
<1>8. CASE QueryMain
  BY <1>8, DevicesAssumption
     DEF QueryMain, QueryFile, IsNext, kernel_vars, found_vars
<1>9. CASE FindMain
  BY <1>9 DEF FindMain, kernel_vars
<1>10. CASE MainNotFound
  BY <1>10 DEF MainNotFound, kernel_vars, found_vars
<1>11. CASE UNCHANGED vars
  BY <1>11 DEF vars, kernel_vars, found_vars
<1>12. CASE Terminated
  BY <1>12, <1>11 DEF Terminated
<1>13. CASE DemoListFiles
  BY <1>13 DEF DemoListFiles, ListFiles, Listed, kernel_vars, found_vars
<1>14. CASE DemoQueryFile
  BY <1>14, DevicesAssumption
     DEF DemoQueryFile, QueryFile, IsNext, kernel_vars, found_vars
<1>15. CASE DemoFindLeft
  BY <1>15
     DEF DemoFindLeft, DemoTake, AfterDemoLeft, Remove, ConfigureCamera,
         kernel_vars
<1>16. CASE DemoFindRight
  BY <1>16 DEF DemoFindRight, DemoTake, Remove, ConfigureCamera, kernel_vars
<1>17. CASE DemoFindMain
  BY <1>17 DEF DemoFindMain, DemoTake, Remove, kernel_vars
<1>18. CASE DemoNotFound
  BY <1>18 DEF DemoNotFound, AfterDemoLeft, kernel_vars, found_vars
<1> QED
  BY <1>1, <1>2, <1>3, <1>4, <1>5, <1>6, <1>7, <1>8, <1>9, <1>10, <1>11,
     <1>12, <1>13, <1>14, <1>15, <1>16, <1>17, <1>18
     DEF Next, InitDevices, Demo

\* In every reachable state each variable of VideoDevices has its type.
THEOREM TypeCorrect == Spec => []TypeOK
BY TypeInit, TypeStep, PTL DEF Spec
-----------------------------------------------------------------------------
(* The inductive invariant. *)

\* The initial state satisfies IInv.
LEMMA IInvInit == Init => IInv
<1> SUFFICES ASSUME Init PROVE IInv
  OBVIOUS
<1>1. TypeOK
  BY TypeInit
<1>2. Known /\ Chosen
  BY DEF Init, Known, Chosen, ChosenFor
<1>3. Spread /\ Taken
  BY DEF Init, Spread, Taken, Pending, Objects
<1>4. Ordered /\ Progress /\ Distinct
  BY DEF Init, Ordered, Progress, Distinct, Labels, Objects
<1> QED BY <1>1, <1>2, <1>3, <1>4 DEF IInv

\* Plugging a camera in or out disturbs nothing that is said of the others.
LEMMA ReplugKeepsIInv ==
    ASSUME IInv, TypeOK', NEW n \in Nodes,
           NEW card \in Cards \cup {Absent, NoCapture}, Replug(n, card)
    PROVE  IInv'
<1> USE DEF Replug, found_vars
<1>1. \A m \in Nodes : dev'[m] = dev[m] \/ m \in changed'
  BY DEF IInv, TypeOK
<1>2. changed \subseteq changed' /\ UNCHANGED <<file_card_map, files, pc>>
  OBVIOUS
<1>3. \A m \in Nodes : LinkTo[m] \in Nodes
  BY DevicesAssumption
<1>4. Known'
  BY <1>1, <1>2, <1>3 DEF IInv, Known
<1>5. Chosen'
  BY <1>1, <1>2, <1>3 DEF IInv, TypeOK, Files, Chosen, ChosenFor
<1>6. Pending' = Pending
  BY <1>2 DEF Pending
<1>7. Spread' /\ Taken'
  BY <1>1, <1>2, <1>3, <1>6 DEF IInv, TypeOK, Files, Spread, Taken, Pending
<1>8. Progress' /\ Distinct'
  BY <1>2 DEF IInv, Progress, Distinct, Same
<1>9. Ordered'
  BY <1>2 DEF IInv, Ordered
<1> QED BY <1>4, <1>5, <1>7, <1>8, <1>9 DEF IInv

\* Two listed files that lead to one camera are links to a camera that is out.
LEMMA ListedApart ==
    ASSUME TypeOK, NEW n \in Listed, NEW m \in Listed, n # m,
           LinkTo[n] = LinkTo[m]
    PROVE  dev[LinkTo[n]] = Absent
<1>1. LinkTo[n] \in Nodes /\ LinkTo[LinkTo[n]] = LinkTo[n]
  BY DevicesAssumption DEF Listed
<1>2. CASE n \notin Physical
  BY <1>1, <1>2 DEF Listed, InDirectory
<1>3. CASE m \notin Physical
  BY <1>1, <1>3 DEF Listed, InDirectory
<1>4. CASE n \in Physical /\ m \in Physical
  BY <1>4 DEF Physical
<1> QED BY <1>2, <1>3, <1>4

\* A scan for the eyes is begun, by either program.
LEMMA ScanStarts ==
    ASSUME IInv, TypeOK', ListStereo \/ DemoListFiles
    PROVE  IInv'
<1> USE DEF ListStereo, DemoListFiles, ListFiles, Goto, kernel_vars, found_vars
<1>1. Known' /\ Chosen'
  BY DEF IInv, Known, Chosen, ChosenFor
<1>2. left_dev_file' = NoFile /\ right_dev_file' = NoFile
  BY DEF IInv, Progress
<1>3. Pending' \subseteq files'
  BY DEF IInv, Progress, Pending
<1>4. \A n, m \in files' :
          n # m /\ LinkTo[n] = LinkTo[m] => dev[LinkTo[n]] = Absent
  BY ListedApart DEF IInv
<1>5. Spread' /\ Taken' /\ Ordered'
  BY <1>2, <1>3, <1>4 DEF Spread, Taken, Ordered
<1>6. Progress' /\ Distinct'
  BY <1>2 DEF IInv, Progress, Distinct, Labels
<1> QED BY <1>1, <1>5, <1>6 DEF IInv

\* A file is queried in it.
LEMMA FileQueried ==
    ASSUME IInv, TypeOK', QueryStereo \/ DemoQueryFile
    PROVE  IInv'
<1> USE DEF QueryStereo, DemoQueryFile, QueryFile, IsNext, Goto, kernel_vars,
            found_vars
<1>1. Known'
  BY DEF IInv, TypeOK, Objects, Known
<1>2. Chosen'
  BY DEF IInv, Chosen, ChosenFor
<1>3. left_dev_file' = NoFile /\ right_dev_file' = NoFile
  BY DEF IInv, Progress
<1>4. Pending' \subseteq Pending
  BY DEF IInv, TypeOK, Objects, Pending
<1>5. Spread' /\ Taken' /\ Ordered'
  BY <1>3, <1>4 DEF IInv, Spread, Taken, Ordered
<1>6. Progress' /\ Distinct'
  BY <1>3 DEF IInv, Progress, Distinct, Labels
<1> QED BY <1>1, <1>2, <1>5, <1>6 DEF IInv

\* The left eye is found.
LEMMA LeftFound ==
    ASSUME IInv, TypeOK', FindLeft \/ DemoFindLeft
    PROVE  IInv'
<1> USE DEF FindLeft, DemoFindLeft, DemoTake, AfterDemoLeft, ConfigureCamera,
            Goto, kernel_vars
<1>1. PICK n \in Nodes : /\ IsFirst(n, Matching("stereo", LeftNames))
                         /\ left_dev_file' = n
                         /\ Remove(n)
  OBVIOUS
<1>2. /\ file_card_map["stereo"][n] \in LeftNames
      /\ \A m \in Nodes :
             file_card_map["stereo"][m] \in LeftNames =>
                 NameRank(n) <= NameRank(m)
  BY <1>1 DEF IsFirst, Matching
<1>3. file_card_map["stereo"][n] # Absent
  BY <1>2, DevicesAssumption
<1>4. Known'
  BY <1>1 DEF IInv, TypeOK, Objects, Known, Remove
<1>5. Chosen'
  BY <1>1, <1>2, <1>3 DEF IInv, Known, Chosen, ChosenFor, Objects
<1>6. Pending' \subseteq Pending \ {n} /\ n \in Pending
  BY <1>1, <1>3 DEF IInv, TypeOK, Objects, Pending, Remove
<1>7. Spread' /\ Taken'
  BY <1>1, <1>6 DEF IInv, Spread, Taken
<1>8. n # NoFile
  BY DevicesAssumption DEF NoFile
<1>9. right_dev_file' = NoFile
  BY DEF IInv, Progress
<1>10. \A m \in Nodes : file_card_map'["stereo"][m] \in LeftNames =>
                            file_card_map["stereo"][m] \in LeftNames
  BY <1>1, DevicesAssumption DEF IInv, TypeOK, Objects, Remove
<1>11. Ordered'
  BY <1>1, <1>2, <1>9, <1>10 DEF Ordered
<1>12. Progress' /\ Distinct'
  BY <1>1, <1>8, <1>9 DEF IInv, Progress, Distinct, Labels
<1> QED BY <1>4, <1>5, <1>7, <1>11, <1>12 DEF IInv

\* The right eye is found, by video_stream perhaps without a left one.
LEMMA RightFound ==
    ASSUME IInv, TypeOK', FindRight \/ DemoFindRight
    PROVE  IInv'
<1> USE DEF FindRight, DemoFindRight, DemoTake, ConfigureCamera, Goto,
            kernel_vars
<1>1. PICK n \in Nodes : /\ IsFirst(n, Matching("stereo", RightNames))
                         /\ right_dev_file' = n
                         /\ Remove(n)
  OBVIOUS
<1>2. file_card_map["stereo"][n] \in RightNames
  BY <1>1 DEF IsFirst, Matching
<1>3. file_card_map["stereo"][n] # Absent
  BY <1>2, DevicesAssumption
<1>4. Known'
  BY <1>1 DEF IInv, TypeOK, Objects, Known, Remove
<1>5. Chosen'
  BY <1>1, <1>2, <1>3 DEF IInv, Known, Chosen, ChosenFor, Objects
<1>6. Pending' \subseteq Pending /\ n \in Pending
  BY <1>1, <1>3 DEF IInv, TypeOK, Objects, Pending, Remove
<1>7. Spread' /\ Taken'
  BY <1>1, <1>6 DEF IInv, Spread, Taken
<1>8. n # NoFile /\ left_dev_file # n
  BY <1>6, DevicesAssumption DEF NoFile, IInv, Taken
<1>9. stereo_flag
  <2>1. pc \in {"right", "demo_right"}
    OBVIOUS
  <2> QED BY <2>1 DEF IInv, Progress
<1>10. Same(left_dev_file, n) => LinkTo[n] \in changed
  BY <1>3, <1>6, <1>8 DEF Same, IInv, Spread, Known, Objects
<1>11. Distinct'
  BY <1>1, <1>8, <1>9, <1>10 DEF Distinct, Same
<1>12. pc = "right" => left_dev_file # NoFile
  BY DEF IInv, Progress
<1>13. Progress'
  BY <1>1, <1>8, <1>9, <1>12 DEF IInv, Progress, Labels
<1>14. \A m \in Nodes : file_card_map'["stereo"][m] \in LeftNames =>
                            file_card_map["stereo"][m] \in LeftNames
  BY <1>1, DevicesAssumption DEF IInv, TypeOK, Objects, Remove
<1>15. changed = {} => file_card_map["stereo"][n] = dev[LinkTo[n]]
  BY <1>3 DEF IInv, Known, Objects
<1>16. Ordered'
  BY <1>1, <1>14, <1>15 DEF IInv, Ordered
<1> QED BY <1>4, <1>5, <1>7, <1>11, <1>13, <1>16 DEF IInv

\* The main camera is found, and taken out of the map by video_stream only.
LEMMA MainFound ==
    ASSUME IInv, TypeOK', FindMain \/ DemoFindMain
    PROVE  IInv'
<1> USE DEF FindMain, DemoFindMain, DemoTake, Goto, kernel_vars
<1>1. PICK n \in Nodes, object \in Objects :
          /\ IsFirst(n, Matching(object, MainNames))
          /\ camera_dev_file' = n
          /\ UNCHANGED file_card_map \/ Remove(n)
  BY DEF Objects
<1>2. file_card_map[object][n] \in MainNames
  BY <1>1 DEF IsFirst, Matching
<1>3. file_card_map[object][n] # Absent
  BY <1>2, DevicesAssumption
<1>4. Known'
  BY <1>1 DEF IInv, TypeOK, Objects, Known, Remove
<1>5. Chosen'
  BY <1>1, <1>2, <1>3 DEF IInv, Known, Chosen, ChosenFor
<1>6. Pending' \subseteq Pending
  BY <1>1 DEF IInv, TypeOK, Objects, Pending, Remove
<1>7. Spread' /\ Taken'
  BY <1>6 DEF IInv, Spread, Taken
<1>8. n # NoFile
  BY DevicesAssumption DEF NoFile
<1>9. Progress' /\ Distinct'
  BY <1>1, <1>8 DEF IInv, Progress, Distinct, Same, Labels
<1>10. \A m \in Nodes : file_card_map'["stereo"][m] \in LeftNames =>
                            file_card_map["stereo"][m] \in LeftNames
  BY <1>1, DevicesAssumption DEF IInv, TypeOK, Objects, Remove
<1>11. Ordered'
  BY <1>10 DEF IInv, Ordered
<1> QED BY <1>4, <1>5, <1>7, <1>9, <1>11 DEF IInv

\* Nothing is chosen, and nothing gets into the map of the eyes.
LEMMA NothingFound ==
    ASSUME IInv, TypeOK', UNCHANGED <<kernel_vars, found_vars>>, Known',
           UNCHANGED file_card_map["stereo"],
           pc \notin {"list_stereo", "query_stereo", "demo_list", "demo_query"},
           pc' \notin {"query_stereo", "demo_query"}, Progress'
    PROVE  IInv'
<1> USE DEF kernel_vars, found_vars
<1>1. Chosen'
  BY DEF IInv, Chosen, ChosenFor
<1>2. Pending' = Pending
  BY DEF Pending
<1>3. Spread' /\ Taken' /\ Ordered'
  BY <1>2 DEF IInv, Spread, Taken, Ordered
<1>4. Distinct'
  BY DEF IInv, Distinct, Same
<1> QED BY <1>1, <1>3, <1>4 DEF IInv

\* Every step of the programs and of the kernel keeps IInv.
LEMMA IInvStep == IInv /\ [Next]_vars => IInv'
<1> SUFFICES ASSUME IInv, [Next]_vars PROVE IInv'
  OBVIOUS
<1>0. TypeOK /\ TypeOK'
  BY TypeStep DEF IInv
<1> USE DEF Goto
<1>1. ASSUME NEW n \in Nodes, NEW card \in Cards \cup {Absent, NoCapture},
             Replug(n, card)
      PROVE  IInv'
  BY <1>0, <1>1, ReplugKeepsIInv
<1>2. CASE ListStereo \/ DemoListFiles
  BY <1>0, <1>2, ScanStarts
<1>3. CASE QueryStereo \/ DemoQueryFile
  BY <1>0, <1>3, FileQueried
<1>4. CASE FindLeft \/ DemoFindLeft
  BY <1>0, <1>4, LeftFound
<1>5. CASE FindRight \/ DemoFindRight
  BY <1>0, <1>5, RightFound
<1>6. CASE FindMain \/ DemoFindMain
  BY <1>0, <1>6, MainFound
<1>7. CASE EyeNotFound \/ MainNotFound \/ DemoNotFound
  <2> USE <1>7 DEF EyeNotFound, MainNotFound, DemoNotFound, AfterDemoLeft
  <2>1. UNCHANGED <<kernel_vars, file_card_map, found_vars>>
    OBVIOUS
  <2>2. Known'
    BY <2>1 DEF IInv, Known, kernel_vars
  <2>3. Progress'
    BY <2>1 DEF IInv, Progress, Labels, found_vars
  <2> QED BY <1>0, <2>1, <2>2, <2>3, NothingFound
<1>8. CASE ListMain
  <2> USE <1>8 DEF ListMain, ListFiles
  <2>1. UNCHANGED <<kernel_vars, file_card_map, found_vars>>
    OBVIOUS
  <2>2. Known'
    BY <2>1 DEF IInv, Known, kernel_vars
  <2>3. Progress'
    BY <2>1 DEF IInv, Progress, Labels, found_vars
  <2> QED BY <1>0, <2>1, <2>2, <2>3, NothingFound
<1>9. CASE QueryMain
  <2> USE <1>9 DEF QueryMain, QueryFile, IsNext
  <2>1. UNCHANGED <<kernel_vars, found_vars>>
    OBVIOUS
  <2>2. Known'
    BY <1>0, <2>1 DEF IInv, TypeOK, Objects, Known, kernel_vars
  <2>3. UNCHANGED file_card_map["stereo"]
    BY <1>0 DEF TypeOK, Objects
  <2>4. Progress'
    BY <2>1 DEF IInv, Progress, Labels, found_vars
  <2> QED BY <1>0, <2>1, <2>2, <2>3, <2>4, NothingFound
<1>10. CASE UNCHANGED vars
  <2> USE <1>10 DEF vars, kernel_vars, found_vars
  <2>1. Known' /\ Chosen'
    BY DEF IInv, Known, Chosen, ChosenFor
  <2>2. Pending' = Pending
    BY DEF Pending
  <2>3. Spread' /\ Taken' /\ Ordered'
    BY <2>2 DEF IInv, Spread, Taken, Ordered
  <2>4. Progress' /\ Distinct'
    BY DEF IInv, Progress, Distinct, Same
  <2> QED BY <1>0, <2>1, <2>3, <2>4 DEF IInv
<1>11. CASE Terminated
  BY <1>11, <1>10 DEF Terminated
<1> QED
  BY <1>1, <1>2, <1>3, <1>4, <1>5, <1>6, <1>7, <1>8, <1>9, <1>10, <1>11
     DEF Next, InitDevices, Demo

\* What the scans know, IInv, holds in every reachable state.
THEOREM IInvCorrect == Spec => []IInv
BY IInvInit, IInvStep, PTL DEF Spec

-----------------------------------------------------------------------------
(* What follows from it. *)

\* One camera is never both eyes, unless it was replugged during the scan.
THEOREM EyesAreDistinctAlways == Spec => []EyesAreDistinct
<1>1. IInv => EyesAreDistinct
  BY DEF IInv, Distinct, EyesAreDistinct, Same
<1> QED BY IInvCorrect, <1>1, PTL

\* The main camera is never an eye, unless it was replugged between the scans.
THEOREM MainIsNoEyeAlways == Spec => []MainIsNoEye
<1>1. IInv => MainIsNoEye
  BY NamesAssumption DEF IInv, Chosen, ChosenFor, MainIsNoEye, Same
<1> QED BY IInvCorrect, <1>1, PTL

\* When initDevices() has returned 0, initGStreamer() finds its sources.
THEOREM ReadyMeansSourcesAlways == Spec => []ReadyMeansSources
<1>1. IInv => ReadyMeansSources
  BY DEF IInv, Progress, ReadyMeansSources
<1> QED BY IInvCorrect, <1>1, PTL

\* The order of names and of numbers differ only between one and two digits.
LEMMA RankOrder ==
    ASSUME NEW n \in 0 .. 99, NEW m \in 0 .. 99,
           NameRank(n) <= NameRank(m), n # m
    PROVE  n < m \/ (m < 10 /\ 10 <= n)
BY DEF NameRank

\* Eyes of the same name are told apart by the names of their files.
THEOREM EyesInOrderAlways == Spec => []EyesInOrder
<1>1. IInv => EyesInOrder
  <2> SUFFICES ASSUME IInv, right_dev_file # NoFile, changed = {},
                      dev[LinkTo[right_dev_file]] \in LeftNames
               PROVE  \/ left_dev_file < right_dev_file
                      \/ right_dev_file < 10 /\ 10 <= left_dev_file
    BY DEF EyesInOrder
  <2>1. right_dev_file \in 0 .. 99
    BY DevicesAssumption DEF IInv, TypeOK, Files
  <2>2. CASE left_dev_file = NoFile
    BY <2>1, <2>2 DEF NoFile
  <2>3. CASE left_dev_file # NoFile
    <3>1. left_dev_file \in 0 .. 99
      BY <2>3, DevicesAssumption DEF IInv, TypeOK, Files
    <3>2. NameRank(left_dev_file) <= NameRank(right_dev_file)
      BY <2>3 DEF IInv, Ordered
    <3>3. left_dev_file # right_dev_file
      BY DEF IInv, Distinct
    <3> QED BY <2>1, <3>1, <3>2, <3>3, RankOrder
  <2> QED BY <2>2, <2>3
<1> QED BY IInvCorrect, <1>1, PTL
=============================================================================
