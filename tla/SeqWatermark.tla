---------------------------- MODULE SeqWatermark ----------------------------
(***************************************************************************)
(* seq_watermark: seq_wm() loads, stamps and saves one image of the folder *)
(* after another, in main()'s thread.  Nothing is caught on the way.       *)
(***************************************************************************)
EXTENDS Kernels, FiniteSets

CONSTANTS File,         \* names in the source folder, "." and ".." left out
          Watermark,    \* the watermark, no smaller than the images
          Picture,      \* what a file may contain
          Unreadable,   \* files whose load may throw CImgIOException
          Unsavable,    \* files whose save_jpeg may throw CImgIOException
          Absent        \* no file of that name in path_out

ASSUME SeqAssumption ==
    /\ IsFiniteSet(File) /\ Absent \notin Picture
    /\ Unreadable \subseteq File /\ Unsavable \subseteq File
    /\ \A img \in Picture : DOMAIN img \subseteq DOMAIN Watermark

VARIABLES content, avg,     \* the image in each file, the mode of the stamp
          dir, unread,      \* opendir(), the entries still to be read
          pc, file,         \* where seq_wm() is, the entry it read last
          img,              \* the image it has in memory
          disk,             \* path_out
          nImgs, process

inputVars == <<content, avg>>
vars == <<inputVars, dir, unread, pc, file, img, disk, nImgs, process>>

Init ==
    /\ content \in [File -> Picture] /\ avg \in BOOLEAN
    /\ dir = "unopened" /\ unread = File
    /\ pc = "open" /\ file \in File /\ img = content[file]
    /\ disk = [f \in File |-> Absent]
    /\ nImgs = 0 /\ process = "running"
-----------------------------------------------------------------------------
At(label, next) == process = "running" /\ pc = label /\ pc' = next

OpenDir ==
    /\ \/ At("open", "read") /\ dir' = "opened"
       \/ At("open", "return") /\ dir' = "missing"
    /\ UNCHANGED <<inputVars, unread, file, img, disk, nImgs, process>>

ReadDir ==
    /\ At("read", "load")
    /\ \E f \in unread : file' = f /\ unread' = unread \ {f}
    /\ UNCHANGED <<inputVars, dir, img, disk, nImgs, process>>

Load ==
    /\ At("load", "process")
    /\ img' = content[file]
    /\ UNCHANGED <<inputVars, dir, unread, file, disk, nImgs, process>>

\* process_image() has a copy of the image, which it stamps...
Process ==
    /\ At("process", "save")
    /\ img' = process_image(img, Watermark, avg)
    /\ UNCHANGED <<inputVars, dir, unread, file, disk, nImgs, process>>

\* ... and saves.
Save ==
    /\ At("save", "count")
    /\ disk' = [disk EXCEPT ![file] = img]
    /\ UNCHANGED <<inputVars, dir, unread, file, img, nImgs, process>>

\* Mutated form: a failed save is passed over, as stage3() does.
FailsPassedOver ==
    /\ \/ At("load", "load") /\ file \in Unreadable /\ process' = "terminated"
       \/ At("save", "count") /\ file \in Unsavable /\ UNCHANGED process
    /\ UNCHANGED <<inputVars, dir, unread, file, img, disk, nImgs>>

\* Neither a load nor a save is in a try block: std::terminate().
Fails ==
    /\ \/ At("load", "load") /\ file \in Unreadable
       \/ At("save", "save") /\ file \in Unsavable
    /\ process' = "terminated"
    /\ UNCHANGED <<inputVars, dir, unread, file, img, disk, nImgs>>

CountImage ==
    /\ At("count", "read")
    /\ nImgs' = nImgs + 1
    /\ UNCHANGED <<inputVars, dir, unread, file, img, disk, process>>

EndOfDir ==
    /\ At("read", "return") /\ unread = {}
    /\ UNCHANGED <<inputVars, dir, unread, file, img, disk, nImgs, process>>

\* main() prints nImgs.
MainReturn ==
    /\ At("return", "return")
    /\ process' = "finished"
    /\ UNCHANGED <<inputVars, dir, unread, file, img, disk, nImgs>>

seq_wm == OpenDir \/ ReadDir \/ Load \/ Process \/ Save \/ Fails \/ CountImage \/ EndOfDir

Exit == process # "running" /\ UNCHANGED vars

Next == seq_wm \/ MainReturn \/ Exit

Spec == Init /\ [][Next]_vars
-----------------------------------------------------------------------------
(* The sequential version keeps the promise of WatermarkJob, which reports *)
(* no image: each image on the disk is the loaded one with the stamp of    *)
(* its mode on every dark pixel and nowhere else, or the run has died.     *)
Job == INSTANCE WatermarkJob WITH
    outcome <- [f \in File |->
        IF disk[f] = Absent THEN "pending"
        ELSE IF disk[f] = Stamped(content[f], Watermark, avg) THEN "written"
        ELSE "spoiled"],
    printed <- IF process = "finished" THEN nImgs ELSE 0

ImplementsJob == Job!Spec

(* The two halves pipe_process_image() can be asked for make one whole,    *)
(* whatever the height: no row between them is missed or, what in average  *)
(* mode would show, stamped twice.                                         *)
HalvesMeet ==
    \A f \in File :
        LET upper == pipe_process_half(content[f], Watermark, avg, TRUE)
        IN  pipe_process_half(upper, Watermark, avg, FALSE)
                = process_image(content[f], Watermark, avg)
=============================================================================
