----------------------------- MODULE GraphFile -----------------------------
(***************************************************************************)
(* simplegraph.h of a2 and a4 (atomicgraph.h and simplegraph_atomic.h are  *)
(* the same code): load_file builds the CSR arrays from a list of edges in *)
(* ascending order of their sources, save_file writes them back.  One      *)
(* action is one iteration of an outer loop.                               *)
(***************************************************************************)
EXTENDS Integers, Sequences

CONSTANTS
  Files,      \* the files to look at
  Leftovers   \* what an int that nothing was stored in may hold

\* A file that cannot be opened, has nothing in it, or has a header.  A header
\* is odd when its first word is no number ("word"), when only the first is
\* one ("half"), or when a number is below 0 ("negative"); edges are the edges
\* up to the end of the file or to the first word that is no number.
OddHeader == {"word", "half", "negative"}
FileStatus == {"missing", "empty", "header"} \cup OddHeader
FileEdge == [src : Nat, dst : Nat, wt : Int]
ASSUME FilesAssumption ==
  /\ Leftovers \subseteq Int
  /\ \A f \in Files :
       /\ f \in [status : FileStatus, nodes : Int, count : Int, edges : Seq(FileEdge)]
       /\ f.status \notin OddHeader => f.nodes \in Nat /\ f.count \in Nat
       /\ f.status \in {"word", "half"} => f.edges = <<>>
       /\ f.status = "negative" => f.nodes < 0 \/ f.count < 0
       /\ \A k \in DOMAIN f.edges : f.edges[k].src < f.nodes /\ f.edges[k].dst < f.nodes

VARIABLES
  file,        \* the file that is read
  pc,          \* the statement main is at
  num_nodes, num_edges, row_start, edge_dst, edge_wt,   \* SimpleCSRGraph
  i,           \* the loop variable of load_file and save_file
  last_src,    \* the last row that has its start
  e,           \* the inner loop variable of save_file
  out,         \* what has been written
  lost         \* how many lines of it did not get into the file

graphVars == <<num_nodes, num_edges, row_start, edge_dst, edge_wt>>
fileVars == <<file, pc, graphVars, i, last_src, e, out, lost>>

LoadInit ==
  /\ file \in Files
  /\ pc = "load"
  /\ num_nodes = 0 /\ num_edges = 0
  /\ row_start = <<>> /\ edge_dst = <<>> /\ edge_wt = <<>>
  /\ i = 0 /\ last_src = 0 /\ e = 0
  /\ out = <<>> /\ lost = 0

\* fopen fails, or there is nothing to scan; main exits.
LoadNothing ==
  /\ pc = "load"
  /\ file.status \in {"missing", "empty"}
  /\ pc' = "exit"
  /\ UNCHANGED <<file, graphVars, i, last_src, e, out, lost>>

\* The header, and the arrays of zeros.
LoadHeader ==
  /\ pc = "load"
  /\ file.status = "header"
  /\ num_nodes' = file.nodes
  /\ num_edges' = file.count
  /\ edge_dst' = [k \in 0 .. file.count - 1 |-> 0]
  /\ edge_wt' = [k \in 0 .. file.count - 1 |-> 0]
  /\ row_start' = [n \in 0 .. file.nodes |-> 0]
  /\ i' = 0 /\ last_src' = 0
  /\ pc' = "edges"
  /\ UNCHANGED <<file, e, out, lost>>

\* fscanf finds one number or none but not the end of the file, and what it
\* has not stored is what the memory held; or a number is below 0.  calloc
\* with a size below 0 gives no array.
LoadOddHeader ==
  /\ pc = "load"
  /\ file.status \in OddHeader
  /\ num_nodes' \in IF file.status = "word" THEN Leftovers ELSE {file.nodes}
  /\ num_edges' \in IF file.status = "negative" THEN {file.count} ELSE Leftovers
  /\ edge_dst' = [k \in 0 .. num_edges' - 1 |-> 0]
  /\ edge_wt' = [k \in 0 .. num_edges' - 1 |-> 0]
  /\ row_start' = [n \in 0 .. num_nodes' |-> 0]
  /\ i' = 0 /\ last_src' = 0
  /\ pc' = "edges"
  /\ UNCHANGED <<file, e, out, lost>>

\* The i-th edge of the file, once there is one to read.
Line == file.edges[i + 1]

\* fscanf finds less than an edge, or the sources are not ascending.
LoadReject ==
  /\ pc = "edges" /\ i < num_edges
  /\ i + 1 \in DOMAIN file.edges => last_src > Line.src
  /\ pc' = "exit"
  /\ UNCHANGED <<file, graphVars, i, last_src, e, out, lost>>

\* Faulty: only the row of the edge gets its start, not the empty ones before.
LoadEdgeSkipsRows ==
  /\ pc = "edges" /\ i < num_edges
  /\ i + 1 \in DOMAIN file.edges /\ last_src <= Line.src
  /\ row_start' = IF last_src = Line.src THEN row_start ELSE [row_start EXCEPT ![Line.src] = i]
  /\ last_src' = Line.src
  /\ edge_dst' = [edge_dst EXCEPT ![i] = Line.dst]
  /\ edge_wt' = [edge_wt EXCEPT ![i] = Line.wt]
  /\ i' = i + 1
  /\ UNCHANGED <<file, pc, num_nodes, num_edges, e, out, lost>>

\* An edge: the rows from the one after last_src to its own start here.
LoadEdge ==
  /\ pc = "edges" /\ i < num_edges
  /\ i + 1 \in DOMAIN file.edges /\ last_src <= Line.src
  /\ row_start' = [n \in 0 .. num_nodes |->
                     IF n \in last_src + 1 .. Line.src THEN i ELSE row_start[n]]
  /\ last_src' = Line.src
  /\ edge_dst' = [edge_dst EXCEPT ![i] = Line.dst]
  /\ edge_wt' = [edge_wt EXCEPT ![i] = Line.wt]
  /\ i' = i + 1
  /\ UNCHANGED <<file, pc, num_nodes, num_edges, e, out, lost>>

\* The rows after the last edge start, and end, at num_edges.
LoadTail ==
  /\ pc = "edges" /\ i >= num_edges /\ num_nodes >= 0
  /\ row_start' = [n \in 0 .. num_nodes |->
                     IF n > last_src THEN num_edges ELSE row_start[n]]
  /\ last_src' = IF last_src < num_nodes THEN num_nodes ELSE last_src
  /\ pc' = "loaded"
  /\ UNCHANGED <<file, num_nodes, num_edges, edge_dst, edge_wt, i, e, out, lost>>

\* last_src is unsigned: a num_nodes below 0 is a large number for the loop,
\* which leaves the array.  Nothing is claimed of what the program does then.
LoadTailOutside ==
  /\ pc = "edges" /\ i >= num_edges /\ num_nodes < 0
  /\ pc' = "undefined"
  /\ UNCHANGED <<file, graphVars, i, last_src, e, out, lost>>

LoadStep ==
  LoadNothing \/ LoadHeader \/ LoadOddHeader \/ LoadReject \/ LoadEdge \/ LoadTail \/ LoadTailOutside

-----------------------------------------------------------------------------
\* stdio keeps what is written until its buffer is full or the file closed.  An
\* error may thus take lines written before, and one that fclose reports, or
\* the end of the process, is told to nobody.
Written(lines) ==
  \E k \in 0 .. Len(lines) : out' = SubSeq(lines, 1, k) /\ lost' = Len(lines) - k

\* The caller of save_file, which no program of the repository uses.
CallSave ==
  /\ pc = "loaded"
  /\ pc' = "save"
  /\ UNCHANGED <<file, graphVars, i, last_src, e, out, lost>>

\* save_file: the header; opening the file and every write can fail.
SaveHeader ==
  /\ pc = "save"
  /\ \/ pc' = "failed" /\ Written(<<>>)
     \/ pc' = "saveEdges" /\ out' = << <<num_nodes, num_edges>> >> /\ UNCHANGED lost
  /\ i' = 0 /\ e' = row_start[0]
  /\ UNCHANGED <<file, graphVars, last_src>>

\* One edge of row i.
SaveEdge ==
  /\ pc = "saveEdges" /\ i < num_nodes
  /\ e < row_start[i + 1]
  /\ LET lines == Append(out, <<i, edge_dst[e], edge_wt[e]>>)
     IN  \/ pc' = "failed" /\ Written(lines) /\ UNCHANGED e
         \/ out' = lines /\ e' = e + 1 /\ UNCHANGED <<pc, lost>>
  /\ UNCHANGED <<file, graphVars, i, last_src>>

\* Faulty: the last row is not written.
SaveRowButLast ==
  /\ pc = "saveEdges"
  /\ \/ /\ i < num_nodes - 1 /\ e >= row_start[i + 1]
        /\ i' = i + 1
        /\ e' = row_start[i + 1]
        /\ UNCHANGED <<pc, out, lost>>
     \/ i >= num_nodes - 1 /\ pc' = "saved" /\ Written(out) /\ UNCHANGED <<i, e>>
  /\ UNCHANGED <<file, graphVars, last_src>>

\* The next row, or fclose, whose result nobody looks at.
SaveRow ==
  /\ pc = "saveEdges"
  /\ \/ /\ i < num_nodes /\ e >= row_start[i + 1]
        /\ i' = i + 1
        /\ e' = row_start[i + 1]
        /\ UNCHANGED <<pc, out, lost>>
     \/ i >= num_nodes /\ pc' = "saved" /\ Written(out) /\ UNCHANGED <<i, e>>
  /\ UNCHANGED <<file, graphVars, last_src>>

SaveStep == CallSave \/ SaveHeader \/ SaveEdge \/ SaveRow

-----------------------------------------------------------------------------
\* The file is one that load_file should take.
Readable ==
  /\ file.status = "header"
  /\ file.count <= Len(file.edges)
  /\ \A k \in 1 .. file.count - 1 : file.edges[k].src <= file.edges[k + 1].src

\* The graph in the arrays is the graph in the file: every row, also an empty
\* one before, between or behind the edges, has the edges of its node and no
\* others, in their order.
GraphOfFile ==
  /\ num_nodes = file.nodes /\ num_edges = file.count
  /\ row_start[0] = 0 /\ row_start[num_nodes] = num_edges
  /\ \A k \in 0 .. num_edges - 1 :
       /\ edge_dst[k] = file.edges[k + 1].dst
       /\ edge_wt[k] = file.edges[k + 1].wt
       /\ \A n \in 0 .. num_nodes - 1 :
            k \in row_start[n] .. row_start[n + 1] - 1 <=> n = file.edges[k + 1].src

Loading == pc \in {"load", "edges"}

\* load_file takes exactly the files it should take, and builds their graph.
\* An odd header is not told from a good one; but then no edge is made up: a
\* number of edges above 0 finds none in the file.
LoadedOrRejected ==
  /\ pc = "exit" => ~Readable
  /\ ~Loading /\ pc # "exit" => \/ Readable /\ GraphOfFile
                                \/ file.status \in OddHeader /\ num_edges <= 0

\* What save_file has written is what load_file has read, but for the lines
\* that fclose could not write, which come last.
RoundTrip ==
  pc = "saved" /\ file.status \notin OddHeader =>
    LET lines == << <<file.nodes, file.count>> >> \o
          [k \in 1 .. file.count |-> <<file.edges[k].src, file.edges[k].dst, file.edges[k].wt>>]
    IN  /\ out = SubSeq(lines, 1, Len(out))
        /\ lost = 0 => out = lines
=============================================================================
