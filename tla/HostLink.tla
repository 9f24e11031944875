------------------------------ MODULE HostLink ------------------------------
(***************************************************************************)
(* The serial line between a client on the host (hboot.py) and the target. *)
(* The line keeps the order of what is sent, both ways, and loses nothing. *)
(* A client that waits reads until 0.1 s have passed in silence: it takes  *)
(* what has arrived for the reply, however late the target is.             *)
(***************************************************************************)
EXTENDS Integers, Sequences, SequencesExt

VARIABLES
  requests,     \* sent, and not yet taken up by the target
  outgoing,     \* parts of a reply the target has still to send
  replies,      \* parts on the line
  client,       \* what the client waits for, and what it has got
  answer,       \* what the last wait returned
  sent,         \* number of requests so far, which numbers them
  said          \* history: the whole reply to the last request

linkVars == <<requests, outgoing, replies, client, answer, sent, said>>

(* A part of a reply: the request it belongs to, and what it says.         *)
Part(n, says)      == [to |-> n, says |-> says]
Reply(n, contents) == [k \in DOMAIN contents |-> Part(n, contents[k])]

(* "clean": nothing of earlier requests was left when this one was sent;   *)
(* "early": the target still had something to do when the wait ended.      *)
Ready    == [until |-> "ready", got |-> <<>>, clean |-> TRUE]
NoAnswer == [to |-> 0, got |-> <<>>, until |-> "ready", clean |-> TRUE, early |-> FALSE]

LinkInit ==
  /\ requests = <<>> /\ outgoing = <<>> /\ replies = <<>>
  /\ client = Ready
  /\ answer = NoAnswer
  /\ sent = 0
  /\ said = <<>>

(***************************************************************************)
(* Plausible slip: one read for the whole of a reply.                      *)
(***************************************************************************)
EndsAfterOneRead(until) == TRUE

-----------------------------------------------------------------------------
(***************************************************************************)
(* The client.  getvar and download_data read once; preloader and hbootdbg *)
(* read until a read returns nothing.                                      *)
(***************************************************************************)
Quiet == requests = <<>> /\ outgoing = <<>>

Ask(request, until) ==
  /\ client = Ready
  /\ requests' = Append(requests, [n |-> sent + 1, asks |-> request])
  /\ sent' = sent + 1
  /\ client' = [until |-> until, got |-> <<>>, clean |-> Quiet /\ replies = <<>>]
  /\ answer' = NoAnswer
  /\ said' = <<>>
  /\ UNCHANGED <<outgoing, replies>>

getvar(var)         == Ask([op |-> "getvar", what |-> var], "one read")
download_data(data) == Ask([op |-> "download", what |-> data], "one read")
preloader(dest)     == Ask([op |-> "oem", what |-> dest], "silence")
hbootdbg(cmd)       == Ask([op |-> "oem", what |-> cmd], "silence")

EndsWithRead(until) == until = "one read"

Waiting  == client # Ready
Return(got) ==
  /\ client' = Ready
  /\ answer' = [to |-> sent, got |-> got, until |-> client.until, clean |-> client.clean,
                early |-> ~Quiet]

(* Plausible slip: a line opened without a timeout.                        *)
ReadsForEver ==
  /\ Waiting /\ replies = <<>> /\ client.got # <<>>
  /\ Return(client.got)
  /\ UNCHANGED <<requests, outgoing, replies, sent, said>>

(* A read returns what has arrived, at most a buffer full of it ...        *)
ReadSome ==
  /\ Waiting
  /\ \E k \in 1 .. Len(replies) :
       LET got == client.got \o SubSeq(replies, 1, k)
       IN /\ replies' = SubSeq(replies, k + 1, Len(replies))
          /\ IF EndsWithRead(client.until) THEN Return(got)
             ELSE client' = [client EXCEPT !.got = got] /\ UNCHANGED answer
  /\ UNCHANGED <<requests, outgoing, sent, said>>

(* ... or nothing after 0.1 s.                                             *)
ReadNothing ==
  /\ Waiting /\ replies = <<>>
  /\ Return(client.got)
  /\ UNCHANGED <<requests, outgoing, replies, sent, said>>

(***************************************************************************)
(* The target takes up one request after the other, and sends the parts of *)
(* a reply when it is ready to.                                            *)
(***************************************************************************)
TakeUp(contents) ==
  /\ requests # <<>> /\ outgoing = <<>>
  /\ requests' = Tail(requests)
  /\ outgoing' = Reply(Head(requests).n, contents)
  /\ said' = IF Head(requests).n = sent THEN outgoing' ELSE said
  /\ UNCHANGED <<replies, client, answer, sent>>

SendPart ==
  /\ outgoing # <<>>
  /\ replies' = Append(replies, Head(outgoing))
  /\ outgoing' = Tail(outgoing)
  /\ UNCHANGED <<requests, client, answer, sent, said>>

-----------------------------------------------------------------------------
(***************************************************************************)
(* Properties.                                                             *)
(***************************************************************************)
(* A wait that ended in silence, and not too early, has got the whole      *)
(* reply to its own request, after what was late of earlier ones, and no   *)
(* more than that if the line was clean before (hboot.py:88-93): so one    *)
(* late reply spoils its own request and the next one, and the client and  *)
(* the target are in step again after those.                               *)
RepliesInStep ==
  answer.until = "silence" /\ ~answer.early =>
    /\ IsSuffix(said, answer.got)
    /\ \A k \in 1 .. Len(answer.got) - Len(said) : answer.got[k].to < answer.to
    /\ answer.clean => answer.got = said
=============================================================================
