---------------------------- MODULE MCFileBrowser ---------------------------
(***************************************************************************)
(* FileBrowser over a small tree: the folder scanned, a folder with a      *)
(* picture and a folder inside it.                                         *)
(***************************************************************************)
EXTENDS FileBrowser

MCRoot    == <<"files">>
MCImages  == <<"files", "Images">>
MCOld     == <<"files", "Images", "old">>
MCPicture == <<"files", "Images", "image1">>
MCNames   == {"files", "Images", "old", "image1", "gone", "undefined"}
MCFolders == {MCRoot, MCImages, MCOld}
MCFiles   == {MCPicture}

\* A term that finds a folder and a file of that folder, and one that finds the
\* folder scanned.
MCMatching == [image |-> {"Images", "image1"}, files |-> {"files"}]

MCTerms       == {"image", "("}
MCBadPatterns == {"("}
MCBadEscapes  == {"%"}

\* The page is opened with no hash, at a folder, at a file, with a search; a
\* folder that is gone is entered.
MCBookmarks == {NoHash, PathHash(MCOld), PathHash(MCPicture),
                TermHash("files"), TermHash("%")}
MCEntered   == {PathHash(<<"files", "gone">>)}
=============================================================================
