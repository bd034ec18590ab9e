---------------------------- MODULE AnchoredChain ----------------------------
(***************************************************************************)
(* The verifier of the anchored-record-chain corpus (agmi/anchored_chain.py) *)
(* and a store it is asked about.  The producer of the chain, the holder of  *)
(* the anchor key and the editor of the files are outside src/: the corpus   *)
(* under src/tests/vectors gives only what they may do.                      *)
(*                                                                         *)
(* A stored line is [chain, text, prev, signed]: signed says whether its     *)
(* signature is the producer's over this very record.  The digest of a line  *)
(* is the sequence of everything hashed into it, so that digests are equal   *)
(* exactly when the same lines were hashed (SHA-256 taken as injective).     *)
(***************************************************************************)
EXTENDS SequencesExt, FiniteSetsExt

CONSTANTS
    Chain, OtherChain,  \* the chain the case names, and another of the producer's
    Texts,              \* what a record may say
    Altered,            \* a text no producer wrote
    MaxLines,           \* bound: the longest store
    MaxSigned,          \* bound: records the producer signs
    MaxEdits            \* bound: edits of the files

ASSUME ChainAssumption == Chain # OtherChain /\ Texts # {} /\ Altered \notin Texts
ASSUME BoundAssumption == MaxLines \in Nat /\ MaxSigned \in Nat /\ MaxEdits \in Nat

Said == [chain : {Chain, OtherChain}, text : Texts \cup {Altered}, signed : BOOLEAN]
Digests == Seq(Said)
Lines == [chain : {Chain, OtherChain}, text : Texts \cup {Altered}, prev : Digests, signed : BOOLEAN]
Anchors == [index : Nat, head : Digests, signed : BOOLEAN]

Genesis == <<>>
SaidBy(line) == [chain |-> line.chain, text |-> line.text, signed |-> line.signed]
(* Mutant: the record is hashed, not the line with its signature.            *)
DigestOfRecord(line) == Append(line.prev, [chain |-> line.chain, text |-> line.text])
Digest(line) == Append(line.prev, SaidBy(line))
WrittenSoFar(lines, i) == [j \in 1..i |-> SaidBy(lines[j])]
DigestBefore(lines, i) == IF i = 1 THEN Genesis ELSE Digest(lines[i - 1])

-----------------------------------------------------------------------------
(* verify_case: the six checks in the contract's order, the index from 0.    *)

SignatureInvalid(lines) == \E i \in DOMAIN lines : ~lines[i].signed
FromOtherChain(lines) == \E i \in DOMAIN lines : lines[i].chain # Chain
(* Mutant: a line is linked to any line before it.                           *)
LinkToAnyEarlier(lines) ==
    \E i \in DOMAIN lines :
        lines[i].prev \notin {Genesis} \cup {Digest(lines[j]) : j \in 1..(i - 1)}
LinkBroken(lines) == \E i \in DOMAIN lines : lines[i].prev # DigestBefore(lines, i)
HeadMissing(lines, anchor) == anchor.index >= Len(lines)
(* Mutant: the digest of the newest line is compared, not the anchored one's. *)
HeadMismatchOnlyIfLast(lines, anchor) ==
    \/ HeadMissing(lines, anchor)
    \/ Len(lines) = anchor.index + 1 /\ Digest(lines[anchor.index + 1]) # anchor.head
HeadMismatch(lines, anchor) ==
    HeadMissing(lines, anchor) \/ Digest(lines[anchor.index + 1]) # anchor.head

(* Mutant: the presence of the anchored line is asked before the links.      *)
ChecksHeadFirst ==
    <<"signature_invalid", "anchor_signature_invalid", "record_from_other_chain",
      "anchored_head_missing", "anchored_head_mismatch", "chain_link_broken">>
Checks == <<"signature_invalid", "anchor_signature_invalid", "record_from_other_chain",
            "chain_link_broken", "anchored_head_missing", "anchored_head_mismatch">>

Fails(name, lines, anchor) ==
    CASE name = "signature_invalid" -> SignatureInvalid(lines)
      [] name = "anchor_signature_invalid" -> ~anchor.signed
      [] name = "record_from_other_chain" -> FromOtherChain(lines)
      [] name = "chain_link_broken" -> LinkBroken(lines)
      [] name = "anchored_head_missing" -> HeadMissing(lines, anchor)
      [] name = "anchored_head_mismatch" -> HeadMismatch(lines, anchor)

Failing(lines, anchor) == {i \in DOMAIN Checks : Fails(Checks[i], lines, anchor)}
Verified(lines, anchor) == Failing(lines, anchor) = {}
Reason(lines, anchor) ==
    IF ~Verified(lines, anchor) THEN Checks[Min(Failing(lines, anchor))]
    ELSE IF Len(lines) - 1 - anchor.index > 0 THEN "records_after_last_anchor"
    ELSE "chain_anchored"

-----------------------------------------------------------------------------
VARIABLES
    store,     \* the lines of store.jsonl
    anchor,    \* anchor.json
    backup,    \* a copy of an earlier store, kept beside it
    signed,    \* history: the digest of every line the producer ever signed
    vouched,   \* history: every anchor ever signed, with the lines it was taken of
    edit,      \* history: the case of the corpus this store is, or "other"
    edits      \* history: edits of the files so far

vars == <<store, anchor, backup, signed, vouched, edit, edits>>

NextLine(lines, text) ==
    [chain |-> Chain, text |-> text, prev |-> DigestBefore(lines, Len(lines) + 1), signed |-> TRUE]
OtherLine ==
    [chain |-> OtherChain, text |-> CHOOSE t \in Texts : TRUE, prev |-> Genesis, signed |-> TRUE]
AnchorOf(lines) == [index |-> Len(lines) - 1, head |-> Digest(Last(lines)), signed |-> TRUE]
Vouch(lines) == [anchor |-> AnchorOf(lines), lines |-> lines]

Init ==
    /\ \E t \in Texts :
         LET first == <<NextLine(<<>>, t)>> IN
         /\ store = first
         /\ anchor = AnchorOf(first)
         /\ vouched = {Vouch(first)}
         /\ signed = {Digest(first[1]), Digest(OtherLine)}
    /\ backup = <<>>
    /\ edit = "honest"
    /\ edits = 0

-----------------------------------------------------------------------------
(* The producer and the holder of the anchor key. *)

(* A record is signed on top of whatever the store ends with.                *)
Produce ==
    /\ Len(store) < MaxLines
    /\ Cardinality(signed) <= MaxSigned
    /\ \E t \in Texts :
         /\ store' = Append(store, NextLine(store, t))
         /\ signed' = signed \cup {Digest(NextLine(store, t))}
    /\ edit' = IF edits = 0 THEN edit ELSE "other"
    /\ UNCHANGED <<anchor, backup, vouched, edits>>

(* The producer keeps a copy, and goes back to an earlier line: what followed *)
(* is abandoned, and no anchor names it.                                      *)
Abandon ==
    /\ edits = 0
    /\ \E n \in (anchor.index + 1)..(Len(store) - 1) : store' = SubSeq(store, 1, n)
    /\ backup' = store
    /\ UNCHANGED <<anchor, signed, vouched, edit, edits>>

Copy ==
    /\ backup # store
    /\ edits = 0
    /\ backup' = store
    /\ UNCHANGED <<store, anchor, signed, vouched, edit, edits>>

(* The anchor is taken of a store that is one signed, linked chain.          *)
TakeAnchor ==
    /\ store # <<>>
    /\ ~SignatureInvalid(store) /\ ~FromOtherChain(store) /\ ~LinkBroken(store)
    /\ anchor' = AnchorOf(store)
    /\ anchor' # anchor
    /\ vouched' = vouched \cup {Vouch(store)}
    /\ edit' = IF edits = 0 THEN edit ELSE "other"
    /\ UNCHANGED <<store, backup, signed, edits>>

-----------------------------------------------------------------------------
(* Edits of the files: the cases of the corpus when the store was honest.    *)

Becomes(name, lines) ==
    /\ edits < MaxEdits
    /\ edits' = edits + 1
    /\ store' = lines
    /\ edit' = IF edits = 0 THEN name ELSE "other"
    /\ UNCHANGED <<backup, signed, vouched>>

AlterLine ==
    /\ \E i \in DOMAIN store :
         \/ Becomes("t1-content-tamper",
                    [store EXCEPT ![i] = [@ EXCEPT !.text = Altered, !.signed = FALSE]])
         \/ Becomes("t8-metadata-tamper",
                    [store EXCEPT ![i] = [@ EXCEPT !.chain = OtherChain, !.signed = FALSE]])
    /\ UNCHANGED anchor

RemoveLine ==
    /\ \E i \in DOMAIN store :
         Becomes(IF i \notin {1, Len(store)} THEN "t3-middle-deletion" ELSE "other", RemoveAt(store, i))
    /\ UNCHANGED anchor

RemoveTail ==
    /\ Len(store) >= 3
    /\ Becomes(CASE anchor.index = Len(store) - 1 -> "t2-tail-removal"
                 [] anchor.index = Len(store) - 3 -> "t2-tail-removal-after-last-anchor"
                 [] OTHER -> "other",
               SubSeq(store, 1, Len(store) - 2))
    /\ UNCHANGED anchor

SwapLines ==
    /\ \E i, j \in DOMAIN store :
         i < j /\ Becomes("t4-reorder", [store EXCEPT ![i] = store[j], ![j] = store[i]])
    /\ UNCHANGED anchor

ForgeLine ==
    /\ Len(store) < MaxLines
    /\ Becomes("t5-forged-insertion",
               Append(store, [NextLine(store, Altered) EXCEPT !.signed = FALSE]))
    /\ UNCHANGED anchor

ReplayLine ==
    /\ \E i \in DOMAIN store :
         \/ Becomes("t6-cross-context-replay", [store EXCEPT ![i] = OtherLine])
         \/ i < Len(store) /\ Becomes("t7-rollback-older-record", [store EXCEPT ![Len(store)] = store[i]])
    /\ UNCHANGED anchor

(* The copy is put back: an older store, or one of an abandoned branch.      *)
RestoreBackup ==
    /\ backup # <<>> /\ backup # store
    /\ Becomes(CASE HeadMissing(backup, anchor) -> "t9-snapshot-rollback"
                 [] ~HeadMissing(backup, anchor) /\ HeadMismatch(backup, anchor) ->
                      "rollback-to-abandoned-branch"
                 [] OTHER -> "other",
               backup)
    /\ UNCHANGED anchor

(* An editor's own anchor over what is left, or an older genuine anchor.     *)
ReplaceAnchor ==
    \/ /\ Len(store) >= 3
       /\ Becomes("tail-removal-reanchored", SubSeq(store, 1, Len(store) - 2))
       /\ anchor' = [AnchorOf(store') EXCEPT !.signed = FALSE]
    \/ /\ \E v \in vouched : v.anchor # anchor /\ anchor' = v.anchor
       /\ Becomes("other", store)

Edit ==
    \/ AlterLine \/ RemoveLine \/ RemoveTail \/ SwapLines \/ ForgeLine
    \/ ReplayLine \/ RestoreBackup \/ ReplaceAnchor

Next == Produce \/ Abandon \/ Copy \/ TakeAnchor \/ Edit
Spec == Init /\ [][Next]_vars

-----------------------------------------------------------------------------
TypeOK ==
    /\ store \in Seq(Lines) /\ backup \in Seq(Lines)
    /\ anchor \in Anchors
    /\ \A v \in vouched : v.anchor \in Anchors /\ v.lines \in Seq(Lines)

(***************************************************************************)
(* Safety.  A verified store holds, up to the line its anchor names, exactly *)
(* the lines that anchor was taken of: no edit, no copy put back, no branch  *)
(* and no anchor of another key passes for them (anchored_chain.py:11-19).   *)
(***************************************************************************)
VerifiedIsAnchored ==
    Verified(store, anchor) =>
        \E v \in vouched :
            v.anchor = anchor /\ v.lines = SubSeq(store, 1, anchor.index + 1)

(***************************************************************************)
(* Safety.  What follows the anchor in a verified store may be cut short or  *)
(* be another branch, but every line of it is one the producer signed on top *)
(* of exactly the lines before it (anchored_chain.py:80-82, README.md:125).  *)
(***************************************************************************)
VerifiedIsABranch ==
    Verified(store, anchor) => \A i \in DOMAIN store : WrittenSoFar(store, i) \in signed

(* The decisions and reasons the corpus expects (MANIFEST.json).             *)
Corpus(name) ==
    CASE name \in {"t1-content-tamper", "t5-forged-insertion", "t8-metadata-tamper"} ->
           {"signature_invalid"}
      [] name \in {"t2-tail-removal", "t9-snapshot-rollback"} -> {"anchored_head_missing"}
      [] name \in {"t3-middle-deletion", "t4-reorder", "t7-rollback-older-record"} ->
           {"chain_link_broken"}
      [] name = "t6-cross-context-replay" -> {"record_from_other_chain"}
      [] name = "rollback-to-abandoned-branch" -> {"anchored_head_mismatch"}
      [] name = "tail-removal-reanchored" -> {"anchor_signature_invalid"}
      [] name = "t2-tail-removal-after-last-anchor" -> {"chain_anchored"}
      [] name = "honest" -> {"chain_anchored", "records_after_last_anchor"}

(***************************************************************************)
(* Safety.  Each edit of the corpus, made to any honest store and not only   *)
(* to the fourteen vendored ones, gets the corpus's decision and reason: the *)
(* first check that fails is the one the contract names for that edit        *)
(* (anchored_chain.py:34-35, :84-86; tests/test_anchored_chain_vectors.py).  *)
(***************************************************************************)
ReasonsMatchTheCorpus == edit # "other" => Reason(store, anchor) \in Corpus(edit)
=============================================================================
