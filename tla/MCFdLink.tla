----------------------------- MODULE MCFdLink -----------------------------
(* A finite instance of FdLink for TLC. *)
EXTENDS FdLink

Bytes(n) == [i \in 1..n |-> i]

From(src, dst, name) == Msg(src, dst, Cmd[name], 3)
At(name) == WithMux(From(9, 5, name), \hC201, 7)

\* Every command from 9 to 5, at the boundaries of its length or size.
MCRegular ==
    {[At("DownloadReq") EXCEPT !.data = Bytes(n)] : n \in {0, 5, 56, 57}}
    \cup {[At("UploadResp") EXCEPT !.data = Bytes(n)] : n \in {5, 56, 57}}
    \cup {[At("DownloadResp") EXCEPT !.data = Bytes(n)] : n \in {0, 2}}
    \cup {At("UploadReq"), At("DownloadInitResp"), [At("Abort") EXCEPT !.code = 17]}
    \cup {[At(name) EXCEPT !.total = n] :
             name \in {"DownloadInitReq", "UploadInitResp"}, n \in {0, 1, 256, 257}}
    \cup {[From(9, 5, name) EXCEPT !.counter = 255, !.data = Bytes(60)] :
             name \in {"DownloadSegReq", "UploadSegResp"}}
    \cup {WithLast(From(9, 5, name), Bytes(n)) :
             name \in {"DownloadEndReq", "UploadEndResp"}, n \in {0, 7, 60, 61}}
    \cup {[From(9, 5, name) EXCEPT !.counter = 1] : name \in {"DownloadSegResp", "UploadSegReq"}}
    \cup {From(9, 5, "DownloadEndResp")}

\* Other senders and receivers, and arguments no encoder takes.
MCMessage ==
    MCRegular
    \cup {WithMux(From(s, d, name), \h1018, 1) :
             s \in {7, 0, 128}, d \in {5, 0, 128}, name \in {"UploadReq", "DownloadResp"}}
    \cup {From(9, 7, name) : name \in {"UploadSegReq", "DownloadSegResp"}}
    \cup {WithMux(From(9, 5, "UploadReq"), \h0FFF, 0), [At("UploadReq") EXCEPT !.session = 0]}

\* A heartbeat, a J1939 frame outside the USDO identifiers, and a USDO request that is cut short.
MCForeign ==
    {[NewFrame(\h709, FALSE) EXCEPT !.payload = <<5>>],
     [NewFrame(\h18FEF600, TRUE) EXCEPT !.payload = Bytes(8), !.flags = FlagBRS],
     [NewFrame(\h609, FALSE) EXCEPT !.payload = <<5, 1, 3, 7, 1, 194, 15, 9>>],
     [NewFrame(SimLoss, TRUE) EXCEPT !.payload = <<1, 9>>]}
=============================================================================
