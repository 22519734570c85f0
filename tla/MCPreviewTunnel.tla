--------------------------- MODULE MCPreviewTunnel ---------------------------
(* Two requests: an upload and a download, each larger than its window.    *)
EXTENDS PreviewTunnel, TLC
CONSTANTS upload, download
Uploads == upload :> 2 @@ download :> 0
Downloads == upload :> 0 @@ download :> 2
=============================================================================
