----------------------------- MODULE MCRestApi -----------------------------
(* Instances of RestApi: one scenario for each way the receiver pages and  *)
(* the API answers.                                                        *)
EXTENDS RestApi

\* a list without repeated timestamps
Base == [mode |-> "offset", size |-> 2, resized |-> 2, page_limit |-> 0,
         storage |-> TRUE, start |-> 0, base |-> 1, more |-> "full",
         bookmark |-> FALSE, hidden |-> {}, format |-> "epoch_us",
         newest |-> FALSE, times |-> [i \in Items |-> 2 * i]]

Offset == [Base EXCEPT !.resized = 3, !.page_limit = 1]
OffsetTotal == [Base EXCEPT !.more = "total", !.start = 1]
\* whole pages the API leaves out
OffsetFlag == [Base EXCEPT !.more = "flag", !.hidden = {2, 3, 4}]
Token == [Base EXCEPT !.mode = "token", !.bookmark = TRUE, !.page_limit = 2]
TokenFlag == [Base EXCEPT !.mode = "token", !.more = "flag", !.resized = 1,
                          !.hidden = {2}]
PageFull == [Base EXCEPT !.mode = "page", !.base = 0, !.page_limit = 1]
PageTotal == [Base EXCEPT !.mode = "page", !.start = 1, !.more = "total"]
PageFlag == [Base EXCEPT !.mode = "page", !.start = 1, !.more = "flag",
                         !.hidden = {1, 2}]
Timestamp == [Base EXCEPT !.mode = "timestamp", !.page_limit = 2,
                          !.resized = 1, !.start = 3]
Seconds == [Base EXCEPT !.mode = "timestamp", !.format = "epoch_s",
                        !.times = [i \in Items |-> 4 * i + (i % 3)]]
\* the default format; two records of one second, pages of three
Rfc3339 == [Base EXCEPT !.mode = "timestamp", !.size = 3, !.resized = 3,
                        !.format = "rfc3339",
                        !.times = [i \in Items |-> 2 * i + 2]]
\* newest first, and never more than a page
Newest == [Base EXCEPT !.mode = "timestamp", !.newest = TRUE, !.size = MaxItems,
                       !.resized = MaxItems]
NoPaging == [Base EXCEPT !.mode = "none", !.storage = FALSE]

AllModes == {Offset, OffsetTotal, OffsetFlag, Token, TokenFlag, PageFull,
             PageTotal, PageFlag, Timestamp, Seconds, Rfc3339, Newest,
             NoPaging}

\* page_size is raised between two runs
RaisedPageSize == {[Base EXCEPT !.mode = "page", !.start = 1, !.resized = 3]}
=============================================================================
