--------------------------- MODULE TerminalStream ---------------------------
(***************************************************************************)
(* What a single-terminal stream promises to the two sides of it: of the   *)
(* items the producers have sent, none follows a terminal one; the         *)
(* consumer gets them in order and then exactly one terminal, which the    *)
(* stream makes up when the producers have gone without sending one, or    *)
(* when the consumer's request is cancelled - only then may items be       *)
(* missing, of those that were sent after the cancellation.                *)
(***************************************************************************)
EXTENDS Naturals, Sequences

CONSTANTS Items,       \* what producers send
          Terminals,   \* the terminal ones
          Cancelled,   \* the terminal the stream makes up for a cancelled request
          Abandoned    \* the one it makes up for producers that have gone

VARIABLES sent,        \* the items producers have sent
          got,         \* what the consumer has received
          cancelled,   \* the request is cancelled
         due,         \* the number of items sent when it was cancelled
          gone         \* the producers are gone

tvars == <<sent, got, cancelled, due, gone>>

Ended(s) == s # <<>> /\ s[Len(s)] \in Terminals \cup {Cancelled, Abandoned}

TInit == sent = <<>> /\ got = <<>> /\ cancelled = FALSE /\ due = 0 /\ gone = FALSE

Accept ==
  /\ ~gone /\ ~Ended(sent)
  /\ \E e \in Items : sent' = Append(sent, e)
  /\ UNCHANGED <<got, cancelled, due, gone>>

Hand ==
  /\ ~Ended(got) /\ Len(got) < Len(sent)
  /\ got' = Append(got, sent[Len(got) + 1])
  /\ UNCHANGED <<sent, cancelled, due, gone>>

Cut ==
  /\ cancelled /\ ~Ended(got) /\ Len(got) >= due
  /\ got' = Append(got, Cancelled)
  /\ UNCHANGED <<sent, cancelled, due, gone>>

Abandon ==
  /\ gone /\ ~cancelled /\ got = sent /\ ~Ended(got)
  /\ got' = Append(got, Abandoned)
  /\ UNCHANGED <<sent, cancelled, due, gone>>

Cancel ==
  /\ ~cancelled
  /\ cancelled' = TRUE /\ due' = Len(sent)
  /\ UNCHANGED <<sent, got, gone>>

Go == gone' = TRUE /\ UNCHANGED <<sent, got, cancelled, due>>

TNext == Accept \/ Hand \/ Cut \/ Abandon \/ Cancel \/ Go

TSpec == TInit /\ [][TNext]_tvars
=============================================================================
