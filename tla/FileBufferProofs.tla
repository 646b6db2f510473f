-------------------------- MODULE FileBufferProofs --------------------------
(***************************************************************************)
(* The file behind a buffer, for every set of files and lengths.           *)
(***************************************************************************)
EXTENDS FileBuffer, FiniteSetTheorems, TLAPS

\* The descriptor and the mapping of a file that a buffer works on.
Descriptor(fd, file, write) == [fd |-> fd, file |-> file, write |-> write]

MappingOf(file) ==
    [address |-> data, file |-> file, size |-> size, shared |-> editable]

(***************************************************************************)
(* Exactly what is open and mapped at each place of the code.              *)
(***************************************************************************)
Idle == descriptors = {} /\ mappings = {}

OpeningInv ==
    \E x \in Files :
      /\ f \in Descriptors
      /\ descriptors = {Descriptor(f, x, FALSE)}
      /\ mappings = {}

Mapped(x) ==
    /\ mappings = {MappingOf(x)}
    /\ data \in Addresses
    /\ size \in Lengths \ {0}

RunningInv ==
    \E x \in Files :
      /\ f \in Descriptors
      /\ descriptors = {Descriptor(f, x, editable)}
      /\ Mapped(x)

ReopeningInv ==
    \E x, y \in Files :
      /\ f \in Descriptors /\ opened \in Descriptors /\ f # opened
      /\ descriptors = {Descriptor(f, x, FALSE), Descriptor(opened, y, TRUE)}
      /\ editable = FALSE
      /\ Mapped(x)

PlaceInv ==
    /\ at \in {"start", "exited"} => Idle
    /\ at \in {"opened", "measured"} => OpeningInv
    /\ at = "measured" => st_size = size /\ st_size \in Lengths
    /\ at = "running" => RunningInv
    /\ Reopening => ReopeningInv
    /\ at = "remeasured" => st_size \in Lengths

DiskOK ==
    /\ path \in Files \cup {NoFile}
    /\ length \in [Files -> Lengths]
    /\ editable \in BOOLEAN
    /\ at \in {"start", "opened", "measured", "running", "reopened",
               "remeasured", "exited"}

IInv == DiskOK /\ PlaceInv

-----------------------------------------------------------------------------
(***************************************************************************)
(* System calls on the descriptors and mappings there can be.              *)
(***************************************************************************)

LEMMA FirstDescriptor ==
    ASSUME descriptors = {}
    PROVE  FreeDescriptor \in Descriptors
<1>1. \E fd \in Descriptors :
        /\ \A d \in descriptors : d.fd # fd
        /\ \A e \in Descriptors : e < fd => \E d \in descriptors : d.fd = e
  <2>1. /\ \A d \in descriptors : d.fd # 3
        /\ \A e \in Descriptors : e < 3 => \E d \in descriptors : d.fd = e
    BY DEF Descriptors
  <2> QED
    BY <2>1 DEF Descriptors
<1> QED
  BY <1>1 DEF FreeDescriptor

LEMMA SecondDescriptor ==
    ASSUME NEW x, NEW w, f \in Descriptors, descriptors = {Descriptor(f, x, w)}
    PROVE  FreeDescriptor \in Descriptors /\ FreeDescriptor # f
<1>1. \A d \in descriptors : d.fd = f
  BY DEF Descriptor
<1>2. \E fd \in Descriptors :
        /\ \A d \in descriptors : d.fd # fd
        /\ \A e \in Descriptors : e < fd => \E d \in descriptors : d.fd = e
  <2>1. CASE f = 3
    <3>1. /\ \A d \in descriptors : d.fd # 4
          /\ \A e \in Descriptors : e < 4 => \E d \in descriptors : d.fd = e
      BY <1>1, <2>1 DEF Descriptors
    <3> QED
      BY <3>1 DEF Descriptors
  <2>2. CASE f = 4
    <3>1. /\ \A d \in descriptors : d.fd # 3
          /\ \A e \in Descriptors : e < 3 => \E d \in descriptors : d.fd = e
      BY <1>1, <2>2 DEF Descriptors
    <3> QED
      BY <3>1 DEF Descriptors
  <2> QED
    BY <2>1, <2>2 DEF Descriptors
<1>3. /\ FreeDescriptor \in Descriptors
      /\ \A d \in descriptors : d.fd # FreeDescriptor
  BY <1>2 DEF FreeDescriptor
<1> QED
  BY <1>1, <1>3 DEF Descriptor

LEMMA FirstAddress ==
    ASSUME mappings = {}
    PROVE  FreeAddress \in Addresses
<1>1. \E address \in Addresses : \A m \in mappings : m.address # address
  BY DEF Addresses
<1> QED
  BY <1>1 DEF FreeAddress

LEMMA SecondAddress ==
    ASSUME NEW x, Mapped(x)
    PROVE  FreeAddress \in Addresses /\ FreeAddress # data
<1>1. \A m \in mappings : m.address = data
  BY DEF Mapped, MappingOf
<1>2. \E address \in Addresses : \A m \in mappings : m.address # address
  BY <1>1 DEF Mapped, Addresses
<1>3. \A m \in mappings : m.address # FreeAddress
  BY <1>2 DEF FreeAddress
<1> QED
  BY <1>1, <1>2, <1>3 DEF FreeAddress, Mapped

\* The file behind a descriptor is the one it was opened on.
LEMMA FileOfOpened ==
    ASSUME NEW fd, NEW x, NEW w, Descriptor(fd, x, w) \in descriptors,
           \A d \in descriptors : d.fd = fd => d = Descriptor(fd, x, w)
    PROVE  FileOf(fd) = x
<1>1. \E d \in descriptors : d.fd = fd
  BY DEF Descriptor
<1>2. (CHOOSE d \in descriptors : d.fd = fd) = Descriptor(fd, x, w)
  BY <1>1
<1> QED
  BY <1>2 DEF FileOf, Descriptor

\* Releasing the only mapping with its own size leaves none.
LEMMA ReleaseOnly ==
    ASSUME NEW x, Mapped(x), Lengths \subseteq Nat
    PROVE  munmap(data, size) = {}
<1>1. \A m \in mappings : m.address = data /\ m.size = size
  BY DEF Mapped, MappingOf
<1>2. ~(size > size)
  BY DEF Mapped
<1> QED
  BY <1>1, <1>2 DEF munmap

-----------------------------------------------------------------------------
(***************************************************************************)
(* Every step keeps what is open and mapped at its place.                  *)
(***************************************************************************)

LEMMA InitPlaces == Init => IInv
  BY DEF Init, IInv, DiskOK, PlaceInv, Idle, Reopening

LEMMA StepOpen ==
    ASSUME IInv, Open
    PROVE  IInv'
<1>1. Idle /\ FreeDescriptor \in Descriptors
  BY FirstDescriptor DEF IInv, PlaceInv, Open, Idle
<1>2. DiskOK'
  BY DEF IInv, DiskOK, Open, disk
<1>3. CASE /\ open(FALSE)
           /\ f' = FreeDescriptor
           /\ at' = "opened"
  <2>1. path \in Files /\ descriptors' = {Descriptor(f', path, FALSE)}
    BY <1>1, <1>3 DEF IInv, DiskOK, open, Idle, Descriptor
  <2>2. OpeningInv'
    BY <1>1, <1>3, <2>1 DEF OpeningInv, Open, Idle, Descriptor
  <2> QED
    BY <1>2, <1>3, <2>2 DEF IInv, PlaceInv, Reopening
<1>4. CASE at' = "exited" /\ UNCHANGED <<descriptors, f>>
  BY <1>1, <1>2, <1>4 DEF IInv, PlaceInv, Reopening, Idle, Open
<1> QED
  BY <1>3, <1>4 DEF Open

\* A failing buffer_open closes the one descriptor it had opened.
LEMMA OpenFailsIdle ==
    ASSUME OpeningInv, OpenFails
    PROVE  Idle' /\ at' = "exited"
  BY DEF OpeningInv, OpenFails, Idle, Descriptor, close

LEMMA StepOpenStat ==
    ASSUME IInv, OpenStat
    PROVE  IInv'
<1>1. OpeningInv /\ at = "opened"
  BY DEF IInv, PlaceInv, OpenStat
<1>2. DiskOK'
  BY DEF IInv, DiskOK, OpenStat, OpenFails, disk
<1>3. CASE /\ st_size' = length[FileOf(f)]
           /\ size' = st_size'
           /\ at' = "measured"
           /\ UNCHANGED <<descriptors, f, data, editable, mappings, opened>>
  <2>1. PICK x \in Files : descriptors = {Descriptor(f, x, FALSE)}
    BY <1>1 DEF OpeningInv
  <2>2. FileOf(f) = x
    BY <2>1, FileOfOpened
  <2>3. st_size' \in Lengths
    BY <1>3, <2>2 DEF IInv, DiskOK
  <2>4. OpeningInv'
    BY <1>1, <1>3 DEF OpeningInv, Descriptor
  <2> QED
    BY <1>2, <1>3, <2>3, <2>4 DEF IInv, PlaceInv, Reopening
<1>4. CASE OpenFails
  BY <1>1, <1>2, <1>4, OpenFailsIdle DEF IInv, PlaceInv, Reopening
<1> QED
  BY <1>3, <1>4 DEF OpenStat

LEMMA StepOpenMap ==
    ASSUME IInv, OpenMap
    PROVE  IInv'
<1>1. OpeningInv /\ st_size = size /\ st_size \in Lengths
  BY DEF IInv, PlaceInv, OpenMap
<1>2. DiskOK'
  BY DEF IInv, DiskOK, OpenMap, OpenFails, disk
<1>3. CASE /\ st_size > 0
           /\ mappings' = mappings \cup {Mapping(f, FALSE)}
           /\ data' = FreeAddress
           /\ editable' = FALSE
           /\ at' = "running"
           /\ UNCHANGED <<descriptors, f, opened>>
  <2>1. PICK x \in Files : /\ f \in Descriptors
                           /\ descriptors = {Descriptor(f, x, FALSE)}
                           /\ mappings = {}
    BY <1>1 DEF OpeningInv
  <2>2. FileOf(f) = x /\ FreeAddress \in Addresses
    BY <2>1, FileOfOpened, FirstAddress
  <2>3. size' = size /\ size \in Lengths \ {0}
    BY <1>1, <1>3 DEF OpenMap
  <2>4. Mapped(x)'
    BY <1>1, <1>3, <2>1, <2>2, <2>3 DEF Mapped, MappingOf, Mapping
  <2>5. RunningInv'
    BY <1>3, <2>1, <2>4 DEF RunningInv, Descriptor
  <2> QED
    BY <1>2, <1>3, <2>5 DEF IInv, PlaceInv, Reopening
<1>4. CASE OpenFails
  BY <1>1, <1>2, <1>4, OpenFailsIdle DEF IInv, PlaceInv, Reopening
<1> QED
  BY <1>3, <1>4 DEF OpenMap

LEMMA StepReopen ==
    ASSUME IInv, Reopen
    PROVE  IInv'
<1>1. PICK x \in Files : /\ f \in Descriptors
                         /\ descriptors = {Descriptor(f, x, FALSE)}
                         /\ Mapped(x)
                         /\ editable = FALSE
  BY DEF IInv, PlaceInv, DiskOK, Reopen, RunningInv
<1>2. DiskOK'
  BY DEF IInv, DiskOK, Reopen, disk, buffer
<1>3. /\ path \in Files /\ opened' \in Descriptors /\ opened' # f
      /\ descriptors' = {Descriptor(f, x, FALSE), Descriptor(opened', path, TRUE)}
  BY <1>1, SecondDescriptor DEF IInv, DiskOK, Reopen, open, Descriptor
<1>4. Mapped(x)'
  BY <1>1 DEF Mapped, MappingOf, Reopen, buffer
<1>5. ReopeningInv'
  BY <1>1, <1>3, <1>4 DEF ReopeningInv, Reopen, buffer, Descriptor
<1> QED
  BY <1>2, <1>5 DEF IInv, PlaceInv, Reopening, Reopen

\* A failing reopen closes the new descriptor and is back where it was.
LEMMA ReopenFailsRunning ==
    ASSUME ReopeningInv, ReopenFails
    PROVE  RunningInv' /\ at' = "running"
<1>1. PICK x, y \in Files :
        /\ f \in Descriptors /\ opened \in Descriptors /\ f # opened
        /\ descriptors = {Descriptor(f, x, FALSE), Descriptor(opened, y, TRUE)}
        /\ editable = FALSE
        /\ Mapped(x)
  BY DEF ReopeningInv
<1>2. descriptors' = {Descriptor(f, x, FALSE)}
  BY <1>1 DEF ReopenFails, close, Descriptor
<1>3. Mapped(x)'
  BY <1>1 DEF Mapped, MappingOf, ReopenFails, buffer
<1> QED
  BY <1>1, <1>2, <1>3 DEF RunningInv, ReopenFails, buffer, Descriptor

LEMMA StepReopenStat ==
    ASSUME IInv, ReopenStat
    PROVE  IInv'
<1>1. ReopeningInv
  BY DEF IInv, PlaceInv, ReopenStat, Reopening
<1>2. DiskOK'
  BY DEF IInv, DiskOK, ReopenStat, ReopenFails, disk, buffer
<1>3. CASE /\ st_size' = length[FileOf(opened)]
           /\ at' = "remeasured"
           /\ UNCHANGED <<descriptors, mappings, opened>>
           /\ UNCHANGED buffer
  <2>1. PICK x, y \in Files :
          /\ f # opened
          /\ descriptors = {Descriptor(f, x, FALSE), Descriptor(opened, y, TRUE)}
    BY <1>1 DEF ReopeningInv
  <2>2. \A d \in descriptors : d.fd = opened => d = Descriptor(opened, y, TRUE)
    BY <2>1 DEF Descriptor
  <2>3. FileOf(opened) = y
    BY <2>1, <2>2, FileOfOpened
  <2>4. st_size' \in Lengths
    BY <1>3, <2>3 DEF IInv, DiskOK
  <2>5. ReopeningInv'
    BY <1>1, <1>3 DEF ReopeningInv, Mapped, MappingOf, buffer, Descriptor
  <2> QED
    BY <1>2, <1>3, <2>4, <2>5 DEF IInv, PlaceInv, Reopening
<1>4. CASE ReopenFails
  BY <1>1, <1>2, <1>4, ReopenFailsRunning DEF IInv, PlaceInv, Reopening
<1> QED
  BY <1>3, <1>4 DEF ReopenStat

LEMMA StepReopenMap ==
    ASSUME IInv, ReopenMap
    PROVE  IInv'
<1>1. ReopeningInv /\ st_size \in Lengths
  BY DEF IInv, PlaceInv, ReopenMap, Reopening
<1>2. DiskOK'
  BY DEF IInv, DiskOK, ReopenMap, TakeOver, ReopenFails, disk, buffer
<1>3. CASE /\ st_size > 0
           /\ mappings' = munmap(data, size) \cup {Mapping(opened, TRUE)}
           /\ descriptors' = close(f)
           /\ TakeOver
           /\ at' = "running"
           /\ UNCHANGED opened
  <2>1. PICK x, y \in Files :
          /\ f \in Descriptors /\ opened \in Descriptors /\ f # opened
          /\ descriptors = {Descriptor(f, x, FALSE), Descriptor(opened, y, TRUE)}
          /\ Mapped(x)
    BY <1>1 DEF ReopeningInv
  <2>2. \A d \in descriptors : d.fd = opened => d = Descriptor(opened, y, TRUE)
    BY <2>1 DEF Descriptor
  <2>3. FileOf(opened) = y
    BY <2>1, <2>2, FileOfOpened
  <2>4. munmap(data, size) = {} /\ FreeAddress \in Addresses
    BY <2>1, ReleaseOnly, SecondAddress, FileBufferAssumption
  <2>5. Mapped(y)'
    <3>1. mappings' = {Mapping(opened, TRUE)}
      BY <1>3, <2>4
    <3>2. Mapping(opened, TRUE) = MappingOf(y)'
      BY <1>3, <2>3 DEF Mapping, MappingOf, TakeOver
    <3>3. st_size \in Lengths \ {0}
      BY <1>1, <1>3, FileBufferAssumption
    <3> QED
      BY <1>3, <2>4, <3>1, <3>2, <3>3 DEF Mapped, TakeOver
  <2>6. descriptors' = {Descriptor(opened, y, TRUE)}
    BY <1>3, <2>1 DEF close, Descriptor
  <2>7. RunningInv'
    BY <1>3, <2>1, <2>5, <2>6 DEF RunningInv, TakeOver, Descriptor
  <2> QED
    BY <1>2, <1>3, <2>7 DEF IInv, PlaceInv, Reopening
<1>4. CASE ReopenFails
  BY <1>1, <1>2, <1>4, ReopenFailsRunning DEF IInv, PlaceInv, Reopening
<1> QED
  BY <1>3, <1>4 DEF ReopenMap

LEMMA StepClose ==
    ASSUME IInv, Close
    PROVE  IInv'
<1>1. PICK x \in Files : /\ descriptors = {Descriptor(f, x, editable)}
                         /\ Mapped(x)
  BY DEF IInv, PlaceInv, Close, RunningInv
<1>2. munmap(data, size) = {}
  BY <1>1, ReleaseOnly, FileBufferAssumption
<1>3. close(f) = {}
  BY <1>1 DEF close, Descriptor
<1> QED
  BY <1>2, <1>3 DEF IInv, DiskOK, PlaceInv, Close, Idle, Reopening, disk, buffer

LEMMA StepDisk ==
    ASSUME IInv, ChangeLength \/ Replace \/ UNCHANGED vars
    PROVE  IInv'
<1>1. UNCHANGED <<descriptors, mappings, f, size, data, editable, opened,
                  st_size, at>>
  BY DEF ChangeLength, Replace, vars, buffer, locals
<1>2. DiskOK'
  BY DEF IInv, DiskOK, ChangeLength, Replace, vars, buffer, locals
<1>3. PlaceInv'
  BY <1>1 DEF IInv, PlaceInv, Idle, OpeningInv, RunningInv, ReopeningInv,
              Mapped, MappingOf, Reopening, Descriptor
<1> QED
  BY <1>2, <1>3 DEF IInv

THEOREM PlacesInvariant == Spec => []IInv
<1>1. IInv /\ [Next]_vars => IInv'
  BY StepOpen, StepOpenStat, StepOpenMap, StepReopen, StepReopenStat,
     StepReopenMap, StepClose, StepDisk DEF Next
<1> QED
  BY <1>1, InitPlaces, PTL DEF Spec

-----------------------------------------------------------------------------
(***************************************************************************)
(* The theorems.                                                           *)
(***************************************************************************)

\* The fields of the buffer and the locals.
FieldsOK ==
    /\ f \in Descriptors \cup {Unset}
    /\ size \in Lengths \cup {0}
    /\ data \in Addresses \cup {Unset}
    /\ opened \in Descriptors \cup {Unset}
    /\ st_size \in Lengths \cup {0}

LEMMA OpenKeepsFields ==
    ASSUME IInv', FieldsOK, Open \/ OpenStat \/ OpenMap
    PROVE  FieldsOK'
<1>1. CASE Open
  BY <1>1 DEF IInv, PlaceInv, OpeningInv, FieldsOK, Open, locals
<1>2. CASE OpenStat
  BY <1>2 DEF IInv, PlaceInv, FieldsOK, OpenStat, OpenFails
<1>3. CASE OpenMap
  BY <1>3 DEF IInv, PlaceInv, RunningInv, Mapped, FieldsOK, OpenMap, OpenFails
<1> QED
  BY <1>1, <1>2, <1>3

LEMMA ReopenKeepsFields ==
    ASSUME IInv', FieldsOK, Reopen \/ ReopenStat \/ ReopenMap
    PROVE  FieldsOK'
<1>1. CASE Reopen
  BY <1>1 DEF IInv, PlaceInv, Reopening, ReopeningInv, FieldsOK, Reopen, buffer
<1>2. CASE ReopenStat
  BY <1>2 DEF IInv, PlaceInv, FieldsOK, ReopenStat, ReopenFails, buffer
<1>3. CASE ReopenMap
  BY <1>3 DEF IInv, PlaceInv, RunningInv, Mapped, FieldsOK, ReopenMap, TakeOver,
     ReopenFails, buffer
<1> QED
  BY <1>1, <1>2, <1>3

\* What is open and mapped is of the types TypeOK gives, wherever the program
\* is between two calls.
LEMMA OpenAndMappedTyped ==
    ASSUME IInv
    PROVE  /\ descriptors \subseteq
                [fd : Descriptors, file : Files, write : BOOLEAN]
           /\ mappings \subseteq
                [address : Addresses, file : Files, size : Lengths \ {0},
                 shared : BOOLEAN]
<1>1. CASE Idle
  BY <1>1 DEF Idle
<1>2. CASE OpeningInv
  BY <1>2 DEF OpeningInv, Descriptor
<1>3. CASE RunningInv
  BY <1>3 DEF IInv, DiskOK, RunningInv, Mapped, MappingOf, Descriptor
<1>4. CASE ReopeningInv
  <2>1. PICK x, y \in Files :
          /\ f \in Descriptors /\ opened \in Descriptors
          /\ descriptors = {Descriptor(f, x, FALSE), Descriptor(opened, y, TRUE)}
          /\ editable = FALSE
          /\ Mapped(x)
    BY <1>4 DEF ReopeningInv
  <2>2. ASSUME NEW fd \in Descriptors, NEW file \in Files, NEW write \in BOOLEAN
        PROVE  Descriptor(fd, file, write)
                 \in [fd : Descriptors, file : Files, write : BOOLEAN]
    BY DEF Descriptor
  <2>3. MappingOf(x) \in [address : Addresses, file : Files, size : Lengths \ {0},
                          shared : BOOLEAN]
    BY <2>1 DEF Mapped, MappingOf
  <2>4. /\ Descriptor(f, x, FALSE) \in [fd : Descriptors, file : Files, write : BOOLEAN]
        /\ Descriptor(opened, y, TRUE) \in [fd : Descriptors, file : Files, write : BOOLEAN]
    BY <2>1, <2>2
  <2>5. mappings = {MappingOf(x)}
    BY <2>1 DEF Mapped
  <2> QED
    BY <2>1, <2>3, <2>4, <2>5, Zenon
<1> QED
  BY <1>1, <1>2, <1>3, <1>4 DEF IInv, DiskOK, PlaceInv, Reopening

\* Two descriptors and two addresses are enough for whatever happens, and every
\* mapping has a length mmap accepts.
THEOREM FileTypeCorrect == Spec => []TypeOK
<1>1. Init => FieldsOK
  BY DEF Init, FieldsOK
<1>2. IInv' /\ FieldsOK /\ [Next]_vars => FieldsOK'
  <2> SUFFICES ASSUME IInv', FieldsOK, [Next]_vars PROVE FieldsOK'
    OBVIOUS
  <2>1. CASE Close \/ ChangeLength \/ Replace \/ UNCHANGED vars
    BY <2>1 DEF FieldsOK, Close, ChangeLength, Replace, vars, buffer, locals
  <2> QED
    BY <2>1, OpenKeepsFields, ReopenKeepsFields DEF Next
<1>3. IInv /\ FieldsOK => TypeOK
  BY OpenAndMappedTyped DEF IInv, DiskOK, FieldsOK, TypeOK
<1> QED
  BY <1>1, <1>2, <1>3, PlacesInvariant, PTL DEF Spec

\* After any sequence of calls, any of which may have failed, a running
\* program holds one descriptor and one mapping, one that reopens a second
\* descriptor, and one that has ended nothing.
THEOREM NoLeak == Spec => []NothingLeaks
<1>1. IInv => NothingLeaks
  <2> SUFFICES ASSUME IInv PROVE NothingLeaks
    OBVIOUS
  <2>1. ASSUME at = "running"
        PROVE  Cardinality(descriptors) = 1 /\ Cardinality(mappings) = 1
    BY <2>1, FS_Singleton DEF IInv, PlaceInv, RunningInv, Mapped
  <2>2. ASSUME Reopening
        PROVE  Cardinality(descriptors) = 2 /\ Cardinality(mappings) = 1
    <3>1. PICK x, y \in Files :
            /\ f # opened
            /\ descriptors = {Descriptor(f, x, FALSE), Descriptor(opened, y, TRUE)}
            /\ Mapped(x)
      BY <2>2 DEF IInv, PlaceInv, ReopeningInv
    <3>2. Descriptor(f, x, FALSE) # Descriptor(opened, y, TRUE)
      BY <3>1 DEF Descriptor
    <3>3. descriptors = {Descriptor(f, x, FALSE)} \cup {Descriptor(opened, y, TRUE)}
      BY <3>1
    <3>4. /\ IsFiniteSet({Descriptor(f, x, FALSE)})
          /\ Cardinality({Descriptor(f, x, FALSE)}) = 1
      BY FS_Singleton
    <3>5. Cardinality(descriptors) = 2
      <4>1. Descriptor(opened, y, TRUE) \notin {Descriptor(f, x, FALSE)}
        BY <3>2
      <4>2. Cardinality({Descriptor(f, x, FALSE)} \cup {Descriptor(opened, y, TRUE)})
              = Cardinality({Descriptor(f, x, FALSE)}) + 1
        BY <3>4, <4>1, FS_AddElement
      <4> QED
        BY <3>3, <3>4, <4>2
    <3>6. Cardinality(mappings) = 1
      BY <3>1, FS_Singleton DEF Mapped
    <3> QED
      BY <3>5, <3>6
  <2>3. ASSUME at = "exited" PROVE descriptors = {} /\ mappings = {}
    BY <2>3 DEF IInv, PlaceInv, Idle
  <2> QED
    BY <2>1, <2>2, <2>3 DEF NothingLeaks
<1> QED
  BY <1>1, PlacesInvariant, PTL

\* The buffer's data, size, descriptor and editable always belong together.
THEOREM AlwaysBacked == Spec => []ViewBacked
<1>1. IInv => ViewBacked
  <2> SUFFICES ASSUME IInv, at = "running" \/ Reopening PROVE ViewBacked
    BY DEF ViewBacked
  <2>1. PICK x \in Files : /\ Descriptor(f, x, editable) \in descriptors
                           /\ MappingOf(x) \in mappings
    BY DEF IInv, PlaceInv, RunningInv, ReopeningInv, Mapped
  <2>2. LET m == MappingOf(x)
            d == Descriptor(f, x, editable)
        IN  /\ m.address = data /\ m.size = size
            /\ d.fd = f /\ d.file = m.file
            /\ m.shared = editable /\ d.write = editable
    BY DEF MappingOf, Descriptor
  <2> QED
    BY <2>1, <2>2 DEF ViewBacked
<1> QED
  BY <1>1, PlacesInvariant, PTL

\* What the refinement mapping gives while there is a mapping.
LEMMA ViewOfMapped ==
    ASSUME NEW x \in Files, Mapped(x), at = "running" \/ Reopening
    PROVE  View = {[file |-> x, size |-> size, writable |-> editable]}
<1>1. {k \in mappings : k.address = data} = {MappingOf(x)}
  BY DEF Mapped, MappingOf
<1>2. MappingOf(x).file = x /\ MappingOf(x).shared = editable
  BY DEF MappingOf
<1> QED
  BY <1>1, <1>2 DEF View

LEMMA ViewOfMappedNext ==
    ASSUME NEW x \in Files, Mapped(x)', at' = "running"
    PROVE  View' = {[file |-> x, size |-> size', writable |-> editable']}
<1>1. {k \in mappings' : k.address = data'} = {MappingOf(x)'}
  BY DEF Mapped, MappingOf
<1>2. MappingOf(x)'.file = x /\ MappingOf(x)'.shared = editable'
  BY DEF MappingOf
<1> QED
  BY <1>1, <1>2 DEF View

\* The calls of buffer_open, buffer_try_reopen and buffer_close implement a
\* view that is opened once, upgraded at most once and whole, and closed.
THEOREM ViewImplemented == Spec => ImplementsFileView
<1>1. Init => FileViews!Init
  BY DEF Init, FileViews!Init, View, Reopening
<1>2. IInv /\ IInv' /\ [Next]_vars => [FileViews!Next]_<<View, at = "exited">>
  <2> SUFFICES ASSUME IInv, IInv', [Next]_vars
               PROVE  [FileViews!Next]_<<View, at = "exited">>
    OBVIOUS
  <2>1. CASE Open \/ OpenStat
    <3>1. View = {} /\ at # "exited"
      BY <2>1 DEF View, Open, OpenStat, Reopening
    <3>2. View' = {}
      BY <2>1 DEF View, Open, OpenStat, OpenFails, Reopening
    <3> QED
      BY <3>1, <3>2 DEF FileViews!Next, FileViews!Close
  <2>2. CASE OpenMap
    <3>1. View = {} /\ at # "exited"
      BY <2>2 DEF View, OpenMap, Reopening
    <3>2. CASE at' = "running"
      <4>1. PICK x \in Files : Mapped(x)'
        BY <3>2 DEF IInv, PlaceInv, RunningInv
      <4>2. View' = {[file |-> x, size |-> size', writable |-> editable']}
        BY <3>2, <4>1, ViewOfMappedNext
      <4>3. editable' = FALSE /\ size' \in Lengths \ {0}
        BY <2>2, <3>2, <4>1 DEF OpenMap, OpenFails, Mapped
      <4> QED
        BY <3>1, <3>2, <4>2, <4>3
        DEF FileViews!Next, FileViews!Open, FileViews!Views
    <3>3. CASE at' = "exited"
      <4>1. View' = {}
        BY <3>3 DEF View, Reopening
      <4> QED
        BY <3>1, <3>3, <4>1 DEF FileViews!Next, FileViews!Close
    <3> QED
      BY <2>2, <3>2, <3>3 DEF OpenMap, OpenFails
  <2>3. CASE Reopen \/ ReopenStat
    <3>1. UNCHANGED <<mappings, data, size>>
      BY <2>3 DEF Reopen, ReopenStat, ReopenFails, buffer
    <3>2. /\ at = "running" \/ Reopening
          /\ at' = "running" \/ Reopening'
      BY <2>3 DEF Reopen, ReopenStat, ReopenFails, Reopening
    <3>3. View' = View
      BY <3>1, <3>2 DEF View
    <3> QED
      BY <3>2, <3>3 DEF Reopening
  <2>4. CASE ReopenMap
    <3>1. Reopening /\ at' = "running"
      BY <2>4 DEF ReopenMap, ReopenFails, Reopening
    <3>2. CASE ReopenFails
      <4>1. View' = View
        BY <3>1, <3>2 DEF View, ReopenFails, buffer
      <4> QED
        BY <3>1, <4>1 DEF Reopening
    <3>3. CASE TakeOver
      <4>1. PICK x \in Files : Mapped(x) /\ editable = FALSE
        BY <3>1 DEF IInv, PlaceInv, ReopeningInv
      <4>2. PICK y \in Files : Mapped(y)'
        BY <3>1 DEF IInv, PlaceInv, RunningInv
      <4>3. View = {[file |-> x, size |-> size, writable |-> FALSE]}
        BY <3>1, <4>1, ViewOfMapped
      <4>4. View' = {[file |-> y, size |-> size', writable |-> TRUE]}
        BY <3>1, <3>3, <4>2, ViewOfMappedNext DEF TakeOver
      <4>5. size \in Lengths \ {0} /\ size' \in Lengths \ {0}
        BY <4>1, <4>2 DEF Mapped
      <4> QED
        BY <3>1, <4>3, <4>4, <4>5
        DEF Reopening, FileViews!Next, FileViews!Upgrade, FileViews!Views
    <3> QED
      BY <2>4, <3>2, <3>3 DEF ReopenMap
  <2>5. CASE Close
    <3>1. at # "exited" /\ at' = "exited" /\ View' = {}
      BY <2>5 DEF Close, View, Reopening
    <3> QED
      BY <3>1 DEF FileViews!Next, FileViews!Close
  <2>6. CASE ChangeLength \/ Replace \/ UNCHANGED vars
    <3>1. UNCHANGED <<mappings, data, size, at>>
      BY <2>6 DEF ChangeLength, Replace, vars, buffer
    <3> QED
      BY <3>1 DEF View, Reopening
  <2> QED
    BY <2>1, <2>2, <2>3, <2>4, <2>5, <2>6 DEF Next
<1> QED
  BY <1>1, <1>2, PlacesInvariant, PTL
  DEF Spec, ImplementsFileView, FileViews!Spec

=============================================================================
