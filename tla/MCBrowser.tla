------------------------------ MODULE MCBrowser ------------------------------
EXTENDS Browser

(* What the invariants of the safety run can tell apart: of the accidents, *)
(* which of them still speak; late is read by no action and none of them.  *)
Told ==
  CASE mishaps = {}         -> left
    [] "cut" \in mishaps    -> "cut"
    [] "raced" \in mishaps  -> "raced"
    [] OTHER                -> "odd"

Shown ==
  <<sessions, sess, parent, revoked, reused, expired, delivered,
    pc, tok, target, dead, made, mode, cookies, page, requests, Told>>
=============================================================================
