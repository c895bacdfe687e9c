--------------------------- MODULE MCAttachments ---------------------------
(* Instances of Attachments for TLC: a photo and a text, and what may be    *)
(* posted for them.  The text is five bytes long, one more than the head    *)
(* that is read of it, and the cut goes through its last character; the     *)
(* other text is none, which its head does not show.                        *)
EXTENDS Attachments

MCFiles == {[mimetype |-> "image/jpg", flaws |-> {}, size |-> 2],
            [mimetype |-> "text/plain", flaws |-> {"dots"}, size |-> 2],
            [mimetype |-> "text/plain", flaws |-> {"traversal"}, size |-> 2],
            [mimetype |-> "image/jpg", flaws |-> {}, size |-> 6]}

MCContents == {[detected |-> "image/jpeg", bytes |-> <<>>, metadata |-> TRUE],
               [detected |-> None, bytes |-> <<1, 1, 3, 0, 0>>, metadata |-> FALSE],
               [detected |-> None, bytes |-> <<1, 1, 1, 1, 0>>, metadata |-> FALSE]}
(* Of an upload that is checked, or gone, its age does not matter any more, nor *)
(* what was left under its upload key.                                          *)
Uploading ==
  \/ row # None /\ row.securityStatus \in {"pending_upload", "verifying"}
  \/ \E q \in Requests : at[q] \in {"head", "sniff", "copy", "dropUpload", "publish",
                                  "commit", "reopen", "unclaim", "reject", "rejectRow"}

Canonical ==
  <<row, lock, job, late, torn, shown, at, my, objects["file"], objects["thumbnail"],
    IF Uploading THEN <<stale, objects["incoming"]>> ELSE <<objects["incoming"] = None>>>>

(* Bounds, of states that are checked but not left: two late calls; a claim that *)
(* comes after the upload was checked (it could have died before).               *)
Bounded ==
  /\ Cardinality(late) <= 2
  /\ \A a \in Actors : at[a] = "claim" => Uploading
=============================================================================
