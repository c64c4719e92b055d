------------------------------- MODULE MCDisk -------------------------------
(* A hard disk written back later, as the program opens it, and a floppy     *)
(* image synced at every write; two sectors, so that a transfer can fail     *)
(* half way; a slice that may overshoot the interval.                        *)
EXTENDS DiskWriteBack

DrivePolicy == [d \in Drives |-> IF d = "hdd" THEN "Deferred" ELSE "Immediate"]
=============================================================================
