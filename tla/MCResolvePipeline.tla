-------------------------- MODULE MCResolvePipeline --------------------------
(* Small instances of ResolvePipeline for TLC. *)
EXTENDS ResolvePipeline

Plain == [post |-> FALSE, media |-> FALSE, cookies |-> FALSE, wait |-> FALSE,
          tabs |-> 0, onlyCookies |-> FALSE]

PlainOnly == {Plain}

SomeRequests == {[Plain EXCEPT !.media = TRUE, !.tabs = 1],
                 [Plain EXCEPT !.post = TRUE, !.wait = TRUE],
                 [Plain EXCEPT !.cookies = TRUE, !.tabs = 2, !.onlyCookies = TRUE]}
==============================================================================
