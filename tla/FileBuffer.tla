----------------------------- MODULE FileBuffer -----------------------------
(***************************************************************************)
(* The file behind a buffer: buffer_open, buffer_try_reopen and            *)
(* buffer_close, one action for each system call that can fail, with what  *)
(* the code does up to the next one.  Between two calls other programs may *)
(* change the length of a file, remove it, or put another file in its      *)
(* place.  Every call may fail for reasons of its own.                     *)
(*                                                                         *)
(* Lengths count pages, the unit of a mapping: 0 is the empty file, which  *)
(* mmap refuses.  An address is the number of a mapping.                   *)
(***************************************************************************)
EXTENDS Naturals, FiniteSets

CONSTANTS
    Files,    \* files that the path may name in turn
    Lengths,  \* lengths they may have
    NoFile    \* what the path names when there is no such file

ASSUME FileBufferAssumption ==
    /\ NoFile \notin Files
    /\ Lengths \subseteq Nat

\* At most two descriptors and two mappings are in use at once.
Descriptors == {3, 4}
Addresses == {1, 2}

VARIABLES
    path,         \* the file the path names
    length,       \* lengths of the files
    descriptors,  \* open descriptors: [fd, file, write]
    mappings,     \* live mappings: [address, file, size, shared]
    f,            \* of the buffer, and size, data, editable too
    size,
    data,
    editable,
    opened,       \* local f of buffer_try_reopen
    st_size,      \* local status.st_size
    at            \* where the program is

buffer == <<f, size, data, editable>>

locals == <<opened, st_size>>

disk == <<path, length>>

vars == <<path, length, descriptors, mappings, f, size, data, editable,
          opened, st_size, at>>

\* Values of variables that the code has not given one yet.
Unset == 0

Init ==
    /\ path \in Files \cup {NoFile}
    /\ length \in [Files -> Lengths]
    /\ descriptors = {}
    /\ mappings = {}
    /\ f = Unset /\ size = 0 /\ data = Unset /\ editable = FALSE
    /\ opened = Unset /\ st_size = 0
    /\ at = "start"

(***************************************************************************)
(* System calls.                                                           *)
(***************************************************************************)

\* The least descriptor that is free.
FreeDescriptor ==
    CHOOSE fd \in Descriptors :
      /\ \A d \in descriptors : d.fd # fd
      /\ \A e \in Descriptors : e < fd => \E d \in descriptors : d.fd = e

FreeAddress ==
    CHOOSE address \in Addresses : \A m \in mappings : m.address # address

FileOf(fd) == (CHOOSE d \in descriptors : d.fd = fd).file

open(write) ==
    /\ path # NoFile
    /\ descriptors' = descriptors
         \cup {[fd |-> FreeDescriptor, file |-> path, write |-> write]}

close(fd) == {d \in descriptors : d.fd # fd}

\* Pages past the given size stay mapped.
munmap(address, n) ==
    {m \in mappings : m.address # address}
      \cup {[m EXCEPT !.size = @ - n] :
              m \in {k \in mappings : k.address = address /\ k.size > n}}

Mapping(fd, shared) ==
    [address |-> FreeAddress, file |-> FileOf(fd), size |-> st_size,
     shared |-> shared]

(***************************************************************************)
(* buffer_open.  When it fails, main exits.                                *)
(***************************************************************************)

Open ==
    /\ at = "start"
    /\ \/ /\ open(FALSE)
          /\ f' = FreeDescriptor
          /\ at' = "opened"
       \/ /\ at' = "exited"
          /\ UNCHANGED <<descriptors, f>>
    /\ UNCHANGED <<size, data, editable, mappings>>
    /\ UNCHANGED locals
    /\ UNCHANGED disk

\* The code at the label error.
OpenFails ==
    /\ descriptors' = close(f)
    /\ at' = "exited"
    /\ UNCHANGED <<f, data, editable, mappings, opened>>

OpenStat ==
    /\ at = "opened"
    /\ \/ /\ st_size' = length[FileOf(f)]
          /\ size' = st_size'
          /\ at' = "measured"
          /\ UNCHANGED <<descriptors, f, data, editable, mappings, opened>>
       \/ /\ OpenFails
          /\ UNCHANGED <<size, st_size>>
    /\ UNCHANGED disk

\* Mutant: the -1 of a failed mmap is taken for an address.
OpenMapUnchecked ==
    /\ at = "measured"
    /\ \/ /\ st_size > 0
          /\ mappings' = mappings \cup {Mapping(f, FALSE)}
          /\ data' = FreeAddress
       \/ /\ data' = 0 - 1
          /\ UNCHANGED mappings
    /\ editable' = FALSE
    /\ at' = "running"
    /\ UNCHANGED <<descriptors, f, opened, size, st_size>>
    /\ UNCHANGED disk

OpenMap ==
    /\ at = "measured"
    /\ \/ /\ st_size > 0
          /\ mappings' = mappings \cup {Mapping(f, FALSE)}
          /\ data' = FreeAddress
          /\ editable' = FALSE
          /\ at' = "running"
          /\ UNCHANGED <<descriptors, f, opened>>
       \/ OpenFails
    /\ UNCHANGED <<size, st_size>>
    /\ UNCHANGED disk

(***************************************************************************)
(* buffer_try_reopen: called by F3 until it has succeeded.                 *)
(***************************************************************************)

Reopen ==
    /\ at = "running"
    /\ ~editable
    /\ open(TRUE)
    /\ opened' = FreeDescriptor
    /\ at' = "reopened"
    /\ UNCHANGED <<mappings, st_size>>
    /\ UNCHANGED buffer
    /\ UNCHANGED disk

\* Mutant: the new descriptor is left open.
ReopenFailsOpen ==
    /\ at' = "running"
    /\ UNCHANGED <<descriptors, mappings, opened>>
    /\ UNCHANGED buffer

\* Mutant: the old mapping is released before the new one is there.
ReopenFailsUnmapped ==
    /\ descriptors' = close(opened)
    /\ mappings' = munmap(data, size)
    /\ at' = "running"
    /\ UNCHANGED opened
    /\ UNCHANGED buffer

\* The second and third call may fail: the new descriptor is closed.  When the
\* first one does nothing has changed, a stuttering step.
ReopenFails ==
    /\ descriptors' = close(opened)
    /\ at' = "running"
    /\ UNCHANGED <<mappings, opened>>
    /\ UNCHANGED buffer

ReopenStat ==
    /\ at = "reopened"
    /\ \/ /\ st_size' = length[FileOf(opened)]
          /\ at' = "remeasured"
          /\ UNCHANGED <<descriptors, mappings, opened>>
          /\ UNCHANGED buffer
       \/ ReopenFails /\ UNCHANGED st_size
    /\ UNCHANGED disk

\* Mutant: the size of the old mapping is kept.
KeepSize ==
    /\ data' = FreeAddress
    /\ f' = opened
    /\ editable' = TRUE
    /\ UNCHANGED size

\* The buffer takes over the new mapping and descriptor.
TakeOver ==
    /\ data' = FreeAddress
    /\ f' = opened
    /\ size' = st_size
    /\ editable' = TRUE

ReopenMap ==
    /\ at = "remeasured"
    /\ \/ /\ st_size > 0
          /\ mappings' = munmap(data, size) \cup {Mapping(opened, TRUE)}
          /\ descriptors' = close(f)
          /\ TakeOver
          /\ at' = "running"
          /\ UNCHANGED opened
       \/ ReopenFails
    /\ UNCHANGED st_size
    /\ UNCHANGED disk

\* buffer_close, on F10.  A close that fails has closed all the same, and is
\* only reported; releasing a live mapping does not fail.
Close ==
    /\ at = "running"
    /\ mappings' = munmap(data, size)
    /\ descriptors' = close(f)
    /\ at' = "exited"
    /\ UNCHANGED buffer
    /\ UNCHANGED locals
    /\ UNCHANGED disk

\* Other programs.
ChangeLength ==
    /\ \E file \in Files, n \in Lengths : length' = [length EXCEPT ![file] = n]
    /\ UNCHANGED <<path, descriptors, mappings, at>>
    /\ UNCHANGED buffer
    /\ UNCHANGED locals

Replace ==
    /\ path' \in Files \cup {NoFile}
    /\ UNCHANGED <<length, descriptors, mappings, at>>
    /\ UNCHANGED buffer
    /\ UNCHANGED locals

Next ==
    \/ Open \/ OpenStat \/ OpenMap
    \/ Reopen \/ ReopenStat \/ ReopenMap
    \/ Close
    \/ ChangeLength \/ Replace

Spec == Init /\ [][Next]_vars

-----------------------------------------------------------------------------

Reopening == at \in {"reopened", "remeasured"}

\* Every variable holds one of its values.
TypeOK ==
    /\ path \in Files \cup {NoFile}
    /\ length \in [Files -> Lengths]
    /\ descriptors \subseteq
         [fd : Descriptors, file : Files, write : BOOLEAN]
    /\ mappings \subseteq
         [address : Addresses, file : Files, size : Lengths \ {0},
          shared : BOOLEAN]
    /\ f \in Descriptors \cup {Unset}
    /\ size \in Lengths \cup {0}
    /\ data \in Addresses \cup {Unset}
    /\ editable \in BOOLEAN
    /\ opened \in Descriptors \cup {Unset}
    /\ st_size \in Lengths \cup {0}
    /\ at \in {"start", "opened", "measured", "running", "reopened",
               "remeasured", "exited"}

\* Whatever call failed on the way, a program that runs holds one descriptor
\* and one mapping, one that is reopening one more descriptor, and one that
\* has ended none.
NothingLeaks ==
    /\ at = "running" => Cardinality(descriptors) = 1 /\ Cardinality(mappings) = 1
    /\ Reopening => Cardinality(descriptors) = 2 /\ Cardinality(mappings) = 1
    /\ at = "exited" => descriptors = {} /\ mappings = {}

\* The buffer's data points to a live mapping of exactly its size, of the file
\* its descriptor has open, and writable exactly when the buffer is editable:
\* also after a reopen that failed half way.
ViewBacked ==
    at = "running" \/ Reopening =>
      \E m \in mappings, d \in descriptors :
        /\ m.address = data /\ m.size = size
        /\ d.fd = f /\ d.file = m.file
        /\ m.shared = editable /\ d.write = editable

\* The view of the file that the rest of the program works on: none while the
\* file is being opened, and none at the end.
View ==
    IF at = "running" \/ Reopening
    THEN {[file |-> m.file, size |-> size, writable |-> m.shared] :
            m \in {k \in mappings : k.address = data}}
    ELSE {}

FileViews == INSTANCE FileView WITH view <- View, closed <- at = "exited"

\* The calls of a reopen together exchange the view in one step or, when one
\* of them fails, leave it intact, whatever other programs do in between.
ImplementsFileView == FileViews!Spec

=============================================================================
