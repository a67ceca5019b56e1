---------------------------- MODULE ReaderParam ----------------------------
(***************************************************************************)
(* An io.Reader as a parameter of a call (jsonrpc/httpio/reader.go).  The  *)
(* encoder replaces the reader by a fresh uuid and starts a goroutine that *)
(* POSTs the body under this uuid; on the server the handler of the POST   *)
(* ("push") and the decoder of the parameter meet on a channel kept in a   *)
(* table by uuid.  The handler of the POST then waits until the reader has *)
(* been read to its end or closed.                                         *)
(*                                                                         *)
(* There is one uuid for each call that has a reader, so the call stands   *)
(* for it.  The two channels a uuid could have are named by the side that  *)
(* made them.  The chunks of a body are abstracted to "more to read" and   *)
(* "read to the end".                                                      *)
(***************************************************************************)
EXTENDS Naturals

CONSTANT Calls   \* the calls, each with its own uuid

VARIABLES
  readers,    \* readers[u]: the channel in the table readers, "none" without entry
  pushCh,     \* the channel the push of u uses
  decCh,      \* the channel the decoder of u uses
  post,       \* post[u]: the goroutine of the encoder
  push,       \* push[u]: the handler hnd of the POST
  broken,     \* uuids whose POST has lost its connection
  pushCtx,    \* uuids whose hnd has a context that is done
  dec,        \* dec[u]: the decoder
  waitClosed, \* waitClosed[u]: how often wr.wait was closed
  use         \* use[u]: how the method's use of the reader ended, "no" before

readerVars == <<readers, pushCh, decCh, post, push, broken, pushCtx, dec, waitClosed, use>>

Sides == {"none", "push", "dec"}

ReaderTypes ==
  /\ readers \in [Calls -> Sides] /\ pushCh \in [Calls -> Sides] /\ decCh \in [Calls -> Sides]
  /\ post \in [Calls -> {"none", "posting", "ended"}]
  /\ push \in [Calls -> {"none", "offering", "waiting", "ok", "failed"}]
  /\ dec \in [Calls -> {"none", "waiting", "got", "failed"}]
  /\ waitClosed \in [Calls -> 0 .. 1]
  /\ pushCtx \subseteq broken /\ broken \subseteq Calls
  /\ use \in [Calls -> {"no", "end", "cut", "closed"}]

ReaderInit ==
  /\ readers = [u \in Calls |-> "none"]
  /\ pushCh = [u \in Calls |-> "none"] /\ decCh = [u \in Calls |-> "none"]
  /\ post = [u \in Calls |-> "none"] /\ push = [u \in Calls |-> "none"]
  /\ dec = [u \in Calls |-> "none"]
  /\ waitClosed = [u \in Calls |-> 0]
  /\ broken = {} /\ pushCtx = {}
  /\ use = [u \in Calls |-> "no"]

(* The encoder: go http.Post(u, r).                                        *)
Encode(u) ==
  /\ post' = [post EXCEPT ![u] = "posting"]
  /\ UNCHANGED <<readers, pushCh, decCh, push, broken, pushCtx, dec, waitClosed, use>>

(* The channel of u in the table, made by side when there is none.  The    *)
(* lookup and the insertion are one section under readersLk.               *)
Entry(u, side) == IF readers[u] = "none" THEN side ELSE readers[u]

Insert_Late(u, side) ==  \* Mutant: the new channel is not put into the table.
  UNCHANGED readers

Insert(u, side) == readers' = [readers EXCEPT ![u] = Entry(u, side)]

(* hnd, until it offers the body on the channel.                           *)
PushArrives(u) ==
  /\ post[u] = "posting" /\ push[u] = "none"
  /\ Insert(u, "push")
  /\ pushCh' = [pushCh EXCEPT ![u] = Entry(u, "push")]
  /\ push' = [push EXCEPT ![u] = "offering"]
  /\ UNCHANGED <<decCh, post, broken, pushCtx, dec, waitClosed, use>>

(* The connection of the POST breaks; the goroutine logs it and ends.      *)
PostBreaks(u) ==
  /\ post[u] = "posting"
  /\ post' = [post EXCEPT ![u] = "ended"]
  /\ broken' = broken \cup {u}
  /\ UNCHANGED <<readers, pushCh, decCh, push, pushCtx, dec, waitClosed, use>>

(* net/http may notice it and end the context of hnd; it does not look for *)
(* it while a body has not been read, so this need not happen.             *)
PushCtxEnds(u) ==
  /\ u \in broken \ pushCtx
  /\ push[u] \in {"offering", "waiting"}
  /\ pushCtx' = pushCtx \cup {u}
  /\ UNCHANGED <<readers, pushCh, decCh, post, push, broken, dec, waitClosed, use>>

(* dec, until it waits on the channel.                                     *)
Decode(u) ==
  /\ Insert(u, "dec")
  /\ decCh' = [decCh EXCEPT ![u] = Entry(u, "dec")]
  /\ dec' = [dec EXCEPT ![u] = "waiting"]
  /\ UNCHANGED <<pushCh, post, push, broken, pushCtx, waitClosed, use>>

Meet(u) ==
  /\ push[u] = "offering" /\ dec[u] = "waiting"
  /\ pushCh[u] = decCh[u]
  /\ push' = [push EXCEPT ![u] = "waiting"]
  /\ dec' = [dec EXCEPT ![u] = "got"]
  /\ UNCHANGED <<readers, pushCh, decCh, post, broken, pushCtx, waitClosed, use>>

(* The context of the call ended while dec waited.                         *)
DecodeGivesUp(u) ==
  /\ dec[u] = "waiting"
  /\ dec' = [dec EXCEPT ![u] = "failed"]
  /\ UNCHANGED <<readers, pushCh, decCh, post, push, broken, pushCtx, waitClosed, use>>

(* Either select of hnd, when the context of the POST has ended: 500.      *)
PushGivesUp(u) ==
  /\ push[u] \in {"offering", "waiting"}
  /\ u \in pushCtx
  /\ push' = [push EXCEPT ![u] = "failed"]
  /\ UNCHANGED <<readers, pushCh, decCh, post, broken, pushCtx, dec, waitClosed, use>>

(* wr.wait was closed: 200, and the goroutine of the encoder ends.         *)
PushDone_Eager(u) ==     \* Mutant: answers as soon as the decoder has the body.
  /\ push[u] = "waiting"
  /\ push' = [push EXCEPT ![u] = "ok"]
  /\ post' = [post EXCEPT ![u] = "ended"]
  /\ UNCHANGED <<readers, pushCh, decCh, broken, pushCtx, dec, waitClosed, use>>

PushDone(u) ==
  /\ push[u] = "waiting"
  /\ waitClosed[u] > 0
  /\ push' = [push EXCEPT ![u] = "ok"]
  /\ post' = [post EXCEPT ![u] = "ended"]
  /\ UNCHANGED <<readers, pushCh, decCh, broken, pushCtx, dec, waitClosed, use>>

(* waitReadCloser.Read.  Data is returned any number of times; the end of  *)
(* the body and an error close wr.wait.  net/http closes the body when hnd *)
(* has returned, and what a broken connection did not deliver is missing.  *)
ReadError(u) == push[u] # "waiting" \/ u \in broken

ReadEnds_Quiet(u) ==     \* Mutant: the end of the body is no reason to close wait.
  /\ \/ /\ push[u] = "waiting"
        /\ use' = [use EXCEPT ![u] = "end"]
        /\ UNCHANGED waitClosed
     \/ /\ ReadError(u)
        /\ use' = [use EXCEPT ![u] = "cut"]
        /\ waitClosed' = [waitClosed EXCEPT ![u] = @ + 1]
  /\ UNCHANGED <<readers, pushCh, decCh, post, push, broken, pushCtx, dec>>

ReadEnds(u) ==
  /\ \/ push[u] = "waiting" /\ use' = [use EXCEPT ![u] = "end"]
     \/ ReadError(u) /\ use' = [use EXCEPT ![u] = "cut"]
  /\ waitClosed' = [waitClosed EXCEPT ![u] = @ + 1]
  /\ UNCHANGED <<readers, pushCh, decCh, post, push, broken, pushCtx, dec>>

(* waitReadCloser.Close.                                                   *)
CloseReader(u) ==
  /\ use' = [use EXCEPT ![u] = "closed"]
  /\ waitClosed' = [waitClosed EXCEPT ![u] = @ + 1]
  /\ UNCHANGED <<readers, pushCh, decCh, post, push, broken, pushCtx, dec>>

(* The next Read that fails, or Close, closes wr.wait again and panics.    *)
ClosesTwice_Never(u) ==  \* Mutant: wait is closed once more.
  FALSE

ClosesTwice(u) == waitClosed[u] > 0

=============================================================================
