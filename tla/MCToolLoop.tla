------------------------------ MODULE MCToolLoop ------------------------------
(* A small instance of ToolLoop: two files, batches that read, search, edit. *)
EXTENDS ToolLoop

CONSTANTS file1, file2
MCFiles == {file1, file2}
MCBatches ==
  {<<<<"Read", file1>>>>, <<<<"Bash", file1>>>>, <<<<"Peek", file1>>, <<"Read", file2>>>>,
   <<<<"Grep", file2>>>>, <<<<"MultiEdit", file1>>, <<"Read", file1>>>>,
   <<<<"Write", file2>>, <<"Bad", file1>>>>}
===============================================================================
