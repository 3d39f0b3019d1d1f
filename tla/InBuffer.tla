------------------------------ MODULE InBuffer ------------------------------
(***************************************************************************)
(* The input buffer: a window d[0 .. writepos-1] onto the files of a       *)
(* recording, which follow each other without a gap, or onto a pipe.  A    *)
(* window is mapped into memory if it lies in one file, and read into a    *)
(* buffer otherwise, or if it cannot be mapped.                            *)
(*                                                                         *)
(* The byte at offset k of the recording is represented by k: the window   *)
(* is right if d[j] is pos + j.                                            *)
(***************************************************************************)
EXTENDS Integers, Sequences

CONSTANTS
  Size,       (* size of the buffer                                        *)
  MmapSize,   (* size of a mapped window, 0 to map nothing                 *)
  PageSize,
  FileLens,   (* lengths that a file may have                              *)
  PipeLens,   (* bytes that may come through a pipe                        *)
  Endless,    (* the length a pipe is given, more than it ever has         *)
  MaxFiles,   (* bound on the files of a recording                         *)
  Amounts, Positions  (* what is asked for                                 *)

ASSUME InBufferAssumption ==
  /\ Size \in Nat \ {0}
  /\ PageSize \in Nat \ {0}
  /\ MmapSize \in Nat
  /\ MmapSize > 0 => /\ Size + PageSize <= MmapSize
                     /\ 2 * PageSize <= MmapSize
  /\ FileLens \subseteq Nat
  /\ PipeLens \subseteq Nat
  /\ Endless \in Nat
  /\ MaxFiles \in Nat
  /\ Amounts \subseteq Nat
  /\ Positions \subseteq Int

Lesser(a, b) == IF a < b THEN a ELSE b

VARIABLES
  files,      (* [off, end] of every file                                  *)
  filesize,
  pipe_mode,
  source,     (* bytes that will come through the pipe                     *)
  fpos,       (* offset of every file descriptor; bytes taken from the pipe*)
  alloc,      (* what d points to: "none", "heap", "map"                   *)
  d, pos, readpos, writepos,
  eof,
  pc,         (* "idle"; in the loops of providedata() and pipedata():     *)
              (* "fill"; "skip", "take"                                    *)
  amount, position,   (* of the call                                       *)
  cur, needseek,      (* file that is being read, and whether to seek      *)
  ret         (* what the last call returned                               *)

filevars == <<files, filesize, pipe_mode, source>>
window   == <<alloc, d, pos, readpos, writepos>>
callvars == <<amount, position>>
readvars == <<cur, needseek>>
vars == <<filevars, fpos, window, eof, pc, callvars, readvars, ret>>

inbytes == writepos - readpos

NoBytes == [j \in {} |-> 0]

(* d after the first n bytes were dropped: memmove(d, d + n, writepos - n) *)
Shifted(n) == [j \in 0 .. writepos - n - 1 |-> d[j + n]]

(* d after n bytes that start at offset first of the recording were read.  *)
Extended(first, n) ==
  [j \in 0 .. writepos + n - 1 |->
     IF j < writepos THEN d[j] ELSE first + j - writepos]

InitWindow ==
  /\ alloc = "none" /\ d = NoBytes
  /\ pos = 0 /\ readpos = 0 /\ writepos = 0

Init ==
  /\ files = << >> /\ filesize = 0 /\ pipe_mode = FALSE /\ source = 0
  /\ fpos = << >>
  /\ InitWindow
  /\ eof = FALSE
  /\ pc = "idle"
  /\ amount = 0 /\ position = 0
  /\ cur = 1 /\ needseek = FALSE
  /\ ret = 0

-----------------------------------------------------------------------------
OpenFile ==
  /\ pc = "idle" /\ ~pipe_mode
  /\ Len(files) < MaxFiles
  /\ \E len \in FileLens :
       /\ files' = Append(files, [off |-> filesize, end |-> filesize + len])
       /\ filesize' = filesize + len
  /\ fpos' = Append(fpos, 0)
  /\ UNCHANGED <<pipe_mode, source, window, eof, pc, callvars, readvars, ret>>

(* A pipe is taken only if it is the only file.                            *)
OpenPipe ==
  /\ pc = "idle" /\ ~pipe_mode /\ files = << >>
  /\ pipe_mode' = TRUE
  /\ source' \in PipeLens
  /\ files' = <<[off |-> 0, end |-> Endless]>>
  /\ filesize' = Endless
  /\ fpos' = <<0>>
  /\ UNCHANGED <<window, eof, pc, callvars, readvars, ret>>

Reset ==
  /\ pc = "idle" /\ files # << >>
  /\ files' = << >> /\ filesize' = 0 /\ pipe_mode' = FALSE /\ source' = 0
  /\ fpos' = << >>
  /\ alloc' = "none" /\ d' = NoBytes
  /\ pos' = 0 /\ readpos' = 0 /\ writepos' = 0
  /\ eof' = FALSE
  /\ amount' = 0 /\ position' = 0 /\ ret' = 0
  /\ UNCHANGED <<pc, readvars>>

-----------------------------------------------------------------------------
(* providedata(a, p): the data at offset p, at least a bytes if there are  *)
(* so many and the buffer is large enough.                                 *)
WantedAll(a, p) == a  \* mutated form: not cut at the end of the recording

Wanted(a, p) == Lesser(a, filesize - p)

PresentFirstByte(a, p) == p >= pos /\ p < pos + writepos  \* mutated form

Present(a, p) == p >= pos /\ p + Wanted(a, p) <= pos + writepos

Return(r) == pc' = "idle" /\ ret' = r

OutOfRange(a, p) ==
  /\ p < 0 \/ p >= filesize
  /\ Return(0)
  /\ UNCHANGED <<window, readvars>>

Hit(a, p) ==
  /\ Present(a, p)
  /\ readpos' = p - pos
  /\ Return(writepos - (p - pos))
  /\ UNCHANGED <<alloc, d, pos, writepos, readvars>>

Backwards(a, p) ==
  /\ pipe_mode /\ ~Present(a, p)
  /\ p < pos
  /\ Return(-1)
  /\ UNCHANGED <<window, readvars>>

StartPipe(a, p) ==
  /\ pipe_mode /\ ~Present(a, p)
  /\ p >= pos
  /\ alloc' = "heap"
  /\ readpos' = 0
  /\ pc' = "skip"
  /\ UNCHANGED <<d, pos, writepos, readvars, ret>>

(* The file that holds offset p.                                           *)
Holds(i, p) == files[i].off <= p /\ p < files[i].end
FileAt(p)   == CHOOSE i \in DOMAIN files : Holds(i, p)

(* Where the mapped window for p begins: so that p is in its middle, but   *)
(* not behind p or in front of the file, and at a page of the file.        *)
Before(a, p) == p + Wanted(a, p) - MmapSize \div 2

WindowBeginBehind(a, p) ==  \* mutated form: it may lie behind p
  LET off == files[FileAt(p)].off
      new == IF Before(a, p) < off THEN off ELSE Before(a, p)
  IN  new - ((new - off) % PageSize)

WindowBegin(a, p) ==
  LET off == files[FileAt(p)].off
      new == IF Before(a, p) > p THEN p
             ELSE IF Before(a, p) < off THEN off ELSE Before(a, p)
  IN  new - ((new - off) % PageSize)

Map(a, p) ==
  LET f == files[FileAt(p)]
      newpos == WindowBegin(a, p)
      len == Lesser(MmapSize, f.end - newpos)
  IN  /\ ~pipe_mode /\ ~Present(a, p)
      /\ MmapSize > 0 /\ p + Wanted(a, p) <= f.end
      /\ alloc' = "map"
      /\ d' = [j \in 0 .. len - 1 |-> f.off + (newpos - f.off) + j]
      /\ pos' = newpos
      /\ readpos' = p - newpos
      /\ writepos' = len
      /\ Return(len - (p - newpos))
      /\ UNCHANGED readvars

(* The window is to be read: what the buffer already has of it is kept.    *)
(* A mapping has been removed before, whether or not a new one was tried.  *)
StartFill(a, p) ==
  LET reuse == alloc = "heap" /\ p >= pos /\ p < pos + writepos
  IN  /\ ~pipe_mode /\ ~Present(a, p)
      /\ alloc' = "heap"
      /\ d' = IF reuse THEN Shifted(p - pos) ELSE NoBytes
      /\ writepos' = IF reuse THEN writepos - (p - pos) ELSE 0
      /\ pos' = p
      /\ readpos' = 0
      /\ pc' = "fill"
      /\ cur' = FileAt(p) /\ needseek' = TRUE
      /\ UNCHANGED ret

Provide(a, p) ==
  /\ position' = p
  /\ \/ OutOfRange(a, p) /\ amount' = 0
     \/ /\ p >= 0 /\ p < filesize
        /\ \/ /\ Hit(a, p) \/ Backwards(a, p) \/ Map(a, p)
              /\ amount' = Wanted(a, p)
           \/ /\ StartPipe(a, p) \/ StartFill(a, p)
              /\ amount' = Lesser(Wanted(a, p), Size)
  /\ UNCHANGED <<filevars, fpos, eof>>

ProvideData == pc = "idle" /\ \E a \in Amounts, p \in Positions : Provide(a, p)

getfilepos == pos + readpos

(* What is in the window; the call is about where that begins.             *)
Remaining(a) ==
  /\ a <= inbytes
  /\ position' = getfilepos /\ amount' = a /\ ret' = inbytes
  /\ UNCHANGED <<filevars, fpos, window, eof, pc, readvars>>

(* providedata(a), without a position.                                     *)
ProvideMore ==
  /\ pc = "idle"
  /\ \E a \in Amounts :
       Remaining(a) \/ (a > inbytes /\ Provide(a, getfilepos))

(* discarddata(n): the window is passed over, and emptied at its end.      *)
DiscardData ==
  /\ pc = "idle"
  /\ \E n \in Amounts :
       IF n < inbytes
         THEN readpos' = readpos + n /\ UNCHANGED <<d, pos, writepos>>
         ELSE /\ pos' = pos + writepos
              /\ readpos' = 0 /\ writepos' = 0 /\ d' = NoBytes
  /\ position' = pos' + readpos' /\ amount' = 0 /\ ret' = 0
  /\ UNCHANGED <<filevars, fpos, alloc, eof, pc, readvars>>

-----------------------------------------------------------------------------
(* One round of the loop that reads from the files.                        *)
FillDone ==
  /\ pc = "fill" /\ writepos >= amount
  /\ Return(inbytes)
  /\ UNCHANGED <<filevars, fpos, window, eof, callvars, readvars>>

OffsetNoSeekNext(i) ==  \* mutated form: the next file is not seeked
  IF needseek THEN pos + writepos - files[i].off ELSE fpos[i]

(* Where file i is read: the descriptor is moved if needed.                *)
Offset(i) ==
  IF needseek \/ i # cur THEN pos + writepos - files[i].off ELSE fpos[i]

ReadFile(i) ==
  \E n \in 1 .. Lesser(Size - writepos, files[i].end - (pos + writepos)) :
     /\ d' = Extended(files[i].off + Offset(i), n)
     /\ writepos' = writepos + n
     /\ fpos' = [fpos EXCEPT ![i] = Offset(i) + n]

Fill ==
  /\ pc = "fill" /\ writepos < amount
  /\ cur' = FileAt(pos + writepos) /\ needseek' = FALSE
  /\ ReadFile(FileAt(pos + writepos))
  /\ UNCHANGED <<filevars, alloc, pos, readpos, eof, pc, callvars, ret>>

(* A seek or a read fails; or a file is shorter than it was when opened.   *)
FillFails ==
  /\ pc = "fill" /\ writepos < amount
  /\ \/ Return(-1) /\ UNCHANGED eof
     \/ Return(inbytes) /\ eof' = TRUE
  /\ UNCHANGED <<filevars, fpos, window, callvars, readvars>>

-----------------------------------------------------------------------------
(* The loops of pipedata(): pass over what lies in front of position, then *)
(* read what is wanted.  A read takes up to what fits, as much as there is.*)
FromPipe(n) ==
  /\ d' = Extended(fpos[1], n)
  /\ writepos' = writepos + n
  /\ fpos' = [fpos EXCEPT ![1] = @ + n]

PipeEnds(r) ==
  \/ Return(-1) /\ UNCHANGED eof
  \/ fpos[1] = source /\ Return(r) /\ eof' = TRUE

PipeSkip ==
  /\ pc = "skip" /\ pos + writepos <= position
  /\ pos' = pos + writepos
  /\ \/ /\ \E n \in 1 .. Lesser(Size, source - fpos[1]) :
             /\ d' = [j \in 0 .. n - 1 |-> fpos[1] + j]
             /\ writepos' = n
             /\ fpos' = [fpos EXCEPT ![1] = @ + n]
        /\ UNCHANGED <<eof, pc, ret>>
     \/ /\ PipeEnds(0)
        /\ d' = NoBytes /\ writepos' = 0
        /\ UNCHANGED fpos
  /\ UNCHANGED <<filevars, alloc, readpos, callvars, readvars>>

PipeShiftKeepsPos ==  \* mutated form: the window is not moved
  /\ pc = "skip" /\ pos + writepos > position
  /\ d' = Shifted(position - pos)
  /\ writepos' = writepos - (position - pos)
  /\ pc' = "take"
  /\ UNCHANGED <<filevars, fpos, alloc, pos, readpos, eof, callvars, readvars,
                 ret>>

PipeShift ==
  /\ pc = "skip" /\ pos + writepos > position
  /\ d' = Shifted(position - pos)
  /\ writepos' = writepos - (position - pos)
  /\ pos' = position
  /\ pc' = "take"
  /\ UNCHANGED <<filevars, fpos, alloc, readpos, eof, callvars, readvars, ret>>

PipeTake ==
  /\ pc = "take"
  /\ IF writepos >= amount
       THEN Return(inbytes) /\ UNCHANGED <<d, writepos, fpos, eof>>
       ELSE \/ /\ \E n \in 1 .. Lesser(Size - writepos, source - fpos[1]) :
                    FromPipe(n)
               /\ UNCHANGED <<eof, pc, ret>>
            \/ PipeEnds(inbytes) /\ UNCHANGED <<d, writepos, fpos>>
  /\ UNCHANGED <<filevars, alloc, pos, readpos, callvars, readvars>>

Next ==
  \/ OpenFile \/ OpenPipe \/ Reset
  \/ ProvideData \/ ProvideMore \/ DiscardData
  \/ Fill \/ FillDone \/ FillFails
  \/ PipeSkip \/ PipeShift \/ PipeTake

Spec == Init /\ [][Next]_vars

-----------------------------------------------------------------------------
TypeOK ==
  /\ files \in Seq([off: Nat, end: Nat])
  /\ filesize \in Nat
  /\ pipe_mode \in BOOLEAN
  /\ source \in Nat
  /\ fpos \in Seq(Nat) /\ Len(fpos) = Len(files)
  /\ alloc \in {"none", "heap", "map"}
  /\ writepos \in Nat /\ readpos \in 0 .. writepos /\ pos \in Nat
  /\ d \in [0 .. writepos - 1 -> Int]
  /\ eof \in BOOLEAN
  /\ pc \in {"idle", "fill", "skip", "take"}
  /\ amount \in Nat /\ position \in Int
  /\ cur \in Nat \ {0} /\ needseek \in BOOLEAN
  /\ ret \in Int

(* Whatever is in the window, mapped, read in pieces from several files,   *)
(* kept from an earlier window or taken from a pipe, are the bytes of the  *)
(* recording from offset pos on (buffer.cpp:348-486).                      *)
WindowFaithful == \A j \in 0 .. writepos - 1 : d[j] = pos + j

(* An answer is about the position that was asked for, and it is shorter   *)
(* than what was asked for and is there, as far as the buffer is large     *)
(* enough, only after a file or the pipe has ended early.                  *)
Served ==
  pc = "idle" =>
    /\ ret > 0 => pos + readpos = position /\ ret = inbytes
    /\ ret >= 0 /\ ret < Lesser(amount, Size) => eof

(* What was taken from a pipe is in the window or has been passed over; it *)
(* cannot be read again (buffer.cpp:290-346).                              *)
NothingLost == pipe_mode => fpos[1] = pos + writepos

(* The assertions of the read loop: the files go on, and there is room     *)
(* (buffer.cpp:458, 461, 476).                                             *)
ReadsInFile ==
  pc = "fill" /\ writepos < amount =>
    /\ \E i \in DOMAIN files : Holds(i, pos + writepos)
    /\ writepos < Size

=============================================================================
