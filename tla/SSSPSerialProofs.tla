-------------------------- MODULE SSSPSerialProofs --------------------------
(***************************************************************************)
(* From the file to the output: load_file takes the files it should, and   *)
(* builds their graphs; save_file writes them back; and both sequential    *)
(* programs write the shortest distances of the file.  All this needs a    *)
(* header with two numbers: of any other, load_file may take what it has   *)
(* not read, and OddInv says that it then has no edge.                     *)
(***************************************************************************)
EXTENDS SSSPSerial, SequenceTheorems, WellFoundedInduction, TLAPS

(***************************************************************************)
(* The graph files.  The invariant of the loop of load_file says that the  *)
(* rows up to last_src begin where the edges read so far say.              *)
(***************************************************************************)
Edge(k) == file.edges[k + 1]   \* the k-th edge, counted as the code does

\* The arrays have the size of the header.
Shape ==
  /\ file.status = "header"
  /\ num_nodes = file.nodes /\ num_edges = file.count
  /\ row_start \in [0 .. num_nodes -> 0 .. num_edges]
  /\ edge_dst \in [0 .. num_edges - 1 -> Nat]
  /\ edge_wt \in [0 .. num_edges - 1 -> Int]
  /\ row_start[0] = 0

\* The first n edges are there, in order, and in the arrays.
Entered(n) ==
  /\ n \in 0 .. num_edges /\ n <= Len(file.edges)
  /\ \A k \in 1 .. n - 1 : file.edges[k].src <= file.edges[k + 1].src
  /\ \A k \in 0 .. n - 1 : edge_dst[k] = Edge(k).dst /\ edge_wt[k] = Edge(k).wt

\* The rows up to m begin where the first n edges say.
Rows(n, m) ==
  \A k \in 0 .. n - 1, r \in 0 .. m : r \in 0 .. num_nodes => (row_start[r] <= k <=> r <= Edge(k).src)

\* The loop invariant of load_file.
Reading ==
  /\ Shape
  /\ Entered(i)
  /\ last_src = (IF i = 0 THEN 0 ELSE file.edges[i].src)
  /\ \A k \in 0 .. i - 1 : Edge(k).src <= last_src
  /\ \A r \in 0 .. num_nodes : row_start[r] <= i
  /\ Rows(i, last_src)

\* What load_file leaves.
Loaded ==
  /\ Shape
  /\ Entered(num_edges)
  /\ Rows(num_edges, num_nodes)
  /\ row_start[num_nodes] = num_edges

\* The lines that save_file writes: the header and the first e edges.
LinesIn(lines) ==
  /\ Len(lines) = e + 1
  /\ lines[1] = <<num_nodes, num_edges>>
  /\ \A k \in 1 .. e :
       lines[k + 1] = <<file.edges[k].src, file.edges[k].dst, file.edges[k].wt>>

Output == (Nat \X Nat) \cup (Nat \X Nat \X Int)

\* The loop invariant of save_file: it is in row i, at edge e.
Saving ==
  /\ out \in Seq(Output)
  /\ i \in 0 .. num_nodes
  /\ e \in 0 .. num_edges
  /\ row_start[i] <= e
  /\ i < num_nodes => e <= row_start[i + 1]
  /\ i = num_nodes => e = num_edges
  /\ LinesIn(out)

\* What is in the file when it has been closed.
Saved ==
  /\ e = num_edges
  /\ \E lines \in Seq(Output) :
       /\ LinesIn(lines)
       /\ out = SubSeq(lines, 1, Len(out))
       /\ lost = 0 => out = lines

SSSPLabel == {"round", "node", "edge", "pop", "relax", "exitFull", "write", "exit write", "done"}
Label ==
  {"load", "edges", "exit", "loaded", "save", "saveEdges", "saved", "failed"} \cup SSSPLabel

FileInv ==
  /\ file \in Files /\ file.status \notin OddHeader
  /\ pc \in Label
  /\ pc = "exit" => ~Readable
  /\ pc = "edges" => Reading
  /\ pc \notin {"load", "edges", "exit"} => Loaded
  /\ pc = "saveEdges" => Saving
  /\ pc = "saved" => Saved

\* The invariant for a file with an odd header: none of its edges is read.
OddInv ==
  /\ file \in Files /\ file.status \in OddHeader
  /\ pc = "edges" => i = 0 /\ num_edges \in Int /\ (num_edges <= 0 \/ 1 \notin DOMAIN file.edges)
  /\ pc \notin {"load", "edges", "exit"} => num_edges <= 0

-----------------------------------------------------------------------------
\* The types of the file that is read.
FileOK ==
  /\ file.nodes \in Nat /\ file.count \in Nat
  /\ Len(file.edges) \in Nat /\ DOMAIN file.edges = 1 .. Len(file.edges)
  /\ \A k \in 1 .. Len(file.edges) :
       /\ file.edges[k].src \in Nat /\ file.edges[k].dst \in Nat
       /\ file.edges[k].wt \in Int
       /\ file.edges[k].src < file.nodes

LEMMA FileTypes ==
  ASSUME file \in Files, file.status \notin OddHeader
  PROVE  FileOK
<1>1. /\ file \in [status : FileStatus, nodes : Int, count : Int, edges : Seq(FileEdge)]
      /\ file.nodes \in Nat /\ file.count \in Nat
  BY FilesAssumption
<1>2. \A k \in DOMAIN file.edges : file.edges[k].src < file.nodes
  BY FilesAssumption
<1>3. file.edges \in Seq(FileEdge)
  BY <1>1
<1>4. DOMAIN file.edges = 1 .. Len(file.edges)
  BY <1>3
<1>5. \A k \in 1 .. Len(file.edges) : file.edges[k] \in FileEdge
  BY <1>3, <1>4
<1> QED BY <1>1, <1>2, <1>3, <1>4, <1>5 DEF FileEdge, FileOK

\* The header and arrays of zeros satisfy the loop invariant.
LEMMA HeaderReading ==
  ASSUME FileOK, LoadHeader
  PROVE  Reading' /\ file' = file /\ pc' = "edges"
<1>1. Shape'
  BY DEF LoadHeader, Shape, FileOK
<1>2. i' = 0 /\ last_src' = 0 /\ \A r \in 0 .. num_nodes' : row_start'[r] = 0
  BY DEF LoadHeader, FileOK
<1>3. Entered(i)'
  BY <1>2 DEF Entered, LoadHeader, FileOK
<1> QED BY <1>1, <1>2, <1>3 DEF Reading, Rows, LoadHeader, FileOK

\* A file is rejected only for a reason.
LEMMA RejectRight ==
  ASSUME FileOK, Reading, LoadReject
  PROVE  ~Readable
<1>1. i \in Nat /\ i < file.count /\ i <= Len(file.edges)
  BY DEF LoadReject, Reading, Shape, Entered, FileOK
<1>2. CASE i + 1 \notin DOMAIN file.edges
  BY <1>1, <1>2 DEF Readable, FileOK
<1>3. CASE i + 1 \in DOMAIN file.edges
  <2>1. last_src > file.edges[i + 1].src /\ file.edges[i + 1].src \in Nat
    BY <1>3 DEF LoadReject, Line, FileOK
  <2>2. i # 0 /\ last_src = file.edges[i].src
    BY <2>1 DEF Reading
  <2>3. i \in 1 .. file.count - 1 /\ i \in 1 .. Len(file.edges)
    BY <1>1, <2>2 DEF FileOK
  <2>4. file.edges[i].src \in Nat
    BY <2>3 DEF FileOK
  <2> QED BY <2>1, <2>2, <2>3, <2>4 DEF Readable
<1> QED BY <1>2, <1>3

\* An edge more keeps the loop invariant.
LEMMA EdgeReading ==
  ASSUME FileOK, Reading, LoadEdge
  PROVE  Reading'
<1>1. /\ i \in Nat /\ i < num_edges /\ i + 1 \in 1 .. Len(file.edges)
      /\ num_nodes \in Nat /\ num_edges \in Nat
  BY DEF LoadEdge, Reading, Shape, Entered, FileOK
<1>2. /\ i' = i + 1 /\ last_src' = file.edges[i + 1].src /\ last_src <= last_src'
      /\ UNCHANGED <<file, num_nodes, num_edges>>
  BY DEF LoadEdge, Line
<1>3. /\ last_src' \in Nat /\ last_src' < num_nodes /\ last_src \in Nat
      /\ file.edges[i + 1].dst \in Nat /\ file.edges[i + 1].wt \in Int
  <2>1. i # 0 => i \in 1 .. Len(file.edges)
    BY <1>1
  <2> QED BY <1>1, <1>2, <2>1 DEF Reading, Shape, FileOK
<1>4. /\ row_start' = [n \in 0 .. num_nodes |->
                         IF n \in last_src + 1 .. last_src' THEN i ELSE row_start[n]]
      /\ edge_dst' = [edge_dst EXCEPT ![i] = file.edges[i + 1].dst]
      /\ edge_wt' = [edge_wt EXCEPT ![i] = file.edges[i + 1].wt]
  BY <1>2 DEF LoadEdge, Line
<1>5. Shape'
  BY <1>1, <1>2, <1>3, <1>4 DEF Shape, Reading
<1>6. Entered(i)'
  <2>1. \A k \in 1 .. i : file.edges[k].src <= file.edges[k + 1].src
    <3>1. i # 0 => file.edges[i].src <= file.edges[i + 1].src
      BY <1>2 DEF Reading
    <3> QED BY <1>1, <3>1 DEF Reading, Entered
  <2>2. ASSUME NEW k \in 0 .. i
        PROVE  edge_dst'[k] = Edge(k).dst /\ edge_wt'[k] = Edge(k).wt
    <3>1. i \in 0 .. num_edges - 1 /\ k \in 0 .. num_edges - 1
      BY <1>1
    <3>2. CASE k = i
      BY <1>4, <3>1, <3>2 DEF Reading, Shape, Edge
    <3>3. CASE k # i
      <4>1. edge_dst'[k] = edge_dst[k] /\ edge_wt'[k] = edge_wt[k]
        BY <1>4, <3>1, <3>3 DEF Reading, Shape
      <4>2. k \in 0 .. i - 1
        BY <1>1, <3>3
      <4> QED BY <4>1, <4>2 DEF Reading, Entered
    <3> QED BY <3>2, <3>3
  <2> QED BY <1>1, <1>2, <2>1, <2>2 DEF Entered, Edge
<1>7. \A k \in 0 .. i : k \in Nat /\ Edge(k).src \in Nat
  BY <1>1 DEF Edge, FileOK
<1>8. \A k \in 0 .. i : Edge(k).src <= last_src'
  <2>1. \A k \in 0 .. i - 1 : Edge(k).src <= last_src
    BY DEF Reading
  <2>2. Edge(i).src = last_src'
    BY <1>2 DEF Edge
  <2>3. \A k \in 0 .. i - 1 : k \in 0 .. i
    BY <1>1
  <2>4. \A k \in 0 .. i - 1 : Edge(k).src <= last_src'
    BY ONLY <1>2, <1>3, <1>7, <2>1, <2>3
  <2>5. \A k \in 0 .. i : k = i \/ k \in 0 .. i - 1
    BY <1>1
  <2>6. last_src' <= last_src'
    BY <1>3
  <2> QED BY <2>2, <2>4, <2>5, <2>6
<1>9. \A r \in 0 .. num_nodes : row_start'[r] <= i + 1
  BY <1>1, <1>4 DEF Reading, Shape
<1>10. Rows(i, last_src)'
  <2> SUFFICES ASSUME NEW k \in 0 .. i, NEW r \in 0 .. last_src', r \in 0 .. num_nodes
               PROVE  row_start'[r] <= k <=> r <= Edge(k).src
    BY <1>1, <1>2 DEF Rows, Edge
  <2>1. row_start[r] \in Nat /\ row_start[r] <= i
    BY <1>1 DEF Reading, Shape
  <2>2. CASE k = i
    <3>1. Edge(k).src = last_src'
      BY <1>2, <2>2 DEF Edge
    <3>2. row_start'[r] <= k
      BY <1>1, <1>4, <2>1, <2>2
    <3> QED BY <1>3, <3>1, <3>2
  <2>3. CASE k # i /\ r <= last_src
    <3>1. row_start'[r] = row_start[r]
      BY <1>3, <1>4, <2>3
    <3>2. k \in 0 .. i - 1 /\ r \in 0 .. last_src
      BY <1>1, <1>3, <2>3
    <3> QED BY <3>1, <3>2 DEF Reading, Rows
  <2>4. CASE k # i /\ r > last_src
    <3>1. row_start'[r] = i
      BY <1>3, <1>4, <2>4
    <3>2. k < i /\ Edge(k).src <= last_src
      BY <1>1, <2>4 DEF Reading
    <3> QED BY <1>1, <1>3, <1>7, <2>4, <3>1, <3>2
  <2> QED BY <1>3, <2>2, <2>3, <2>4
<1> QED BY <1>1, <1>2, <1>5, <1>6, <1>8, <1>9, <1>10 DEF Reading, Edge

\* The loop for the rows behind the last edge finishes the graph.
LEMMA TailLoaded ==
  ASSUME FileOK, Reading, LoadTail
  PROVE  Loaded'
<1>1. /\ i = num_edges /\ num_edges \in Nat /\ num_nodes \in Nat
      /\ UNCHANGED <<file, num_nodes, num_edges, edge_dst, edge_wt>>
      /\ row_start' = [n \in 0 .. num_nodes |-> IF n > last_src THEN num_edges ELSE row_start[n]]
  BY DEF LoadTail, Reading, Shape, Entered, FileOK
<1>2. last_src \in Nat /\ (last_src < num_nodes \/ num_nodes = 0)
  <2>1. i # 0 => i \in 1 .. Len(file.edges)
    BY <1>1 DEF Reading, Entered, FileOK
  <2> QED BY <1>1, <2>1 DEF Reading, Shape, FileOK
<1>3. Shape'
  BY <1>1, <1>2 DEF Shape, Reading
<1>4. Entered(num_edges)'
  BY <1>1 DEF Reading, Entered, Edge
<1>5. Rows(num_edges, num_nodes)'
  <2> SUFFICES ASSUME NEW k \in 0 .. num_edges - 1, NEW r \in 0 .. num_nodes
               PROVE  row_start'[r] <= k <=> r <= Edge(k).src
    BY <1>1 DEF Rows, Edge
  <2>1. Edge(k).src \in Nat /\ Edge(k).src <= last_src
    BY <1>1 DEF Reading, Entered, Edge, FileOK
  <2>2. CASE r > last_src
    BY <1>1, <1>2, <2>1, <2>2
  <2>3. CASE r <= last_src
    BY <1>1, <1>2, <2>3 DEF Reading, Rows
  <2> QED BY <1>2, <2>2, <2>3
<1>6. row_start'[num_nodes] = num_edges
  <2>1. num_nodes = 0 => num_edges = 0
    <3>1. num_edges # 0 => num_edges \in 1 .. Len(file.edges)
      BY <1>1 DEF Reading, Entered, FileOK
    <3> QED BY <1>1, <3>1 DEF Reading, Shape, FileOK
  <2> QED BY <1>1, <1>2, <2>1 DEF Reading, Shape
<1> QED BY <1>1, <1>3, <1>4, <1>5, <1>6 DEF Loaded

\* What load_file leaves is the graph of a file that it should take.
LEMMA LoadedIsGraph ==
  ASSUME FileOK, Loaded
  PROVE  Readable /\ GraphOfFile
<1>1. num_edges \in Nat /\ num_nodes \in Nat /\ num_edges <= Len(file.edges)
  BY DEF Loaded, Shape, Entered, FileOK
<1>2. Readable
  BY <1>1 DEF Readable, Loaded, Shape, Entered
<1>3. ASSUME NEW k \in 0 .. num_edges - 1, NEW n \in 0 .. num_nodes - 1
      PROVE  k \in row_start[n] .. row_start[n + 1] - 1 <=> n = Edge(k).src
  <2>1. n \in 0 .. num_nodes /\ n + 1 \in 0 .. num_nodes
    BY <1>1
  <2>2. row_start[n] \in 0 .. num_edges /\ row_start[n + 1] \in 0 .. num_edges /\ Edge(k).src \in Nat
    <3>1. row_start \in [0 .. num_nodes -> 0 .. num_edges]
      BY DEF Loaded, Shape
    <3>2. k + 1 \in 1 .. Len(file.edges)
      BY <1>1
    <3> QED BY <2>1, <3>1, <3>2 DEF Edge, FileOK
  <2>3. (row_start[n] <= k <=> n <= Edge(k).src) /\ (row_start[n + 1] <= k <=> n + 1 <= Edge(k).src)
    BY <2>1 DEF Loaded, Rows
  <2> QED BY <1>1, <2>2, <2>3
<1> QED BY <1>1, <1>2, <1>3 DEF GraphOfFile, Loaded, Shape, Entered, Edge

\* The rows of a loaded graph follow each other.
LEMMA RowsAscend ==
  ASSUME FileOK, Loaded, NEW n \in 0 .. num_nodes - 1
  PROVE  /\ row_start[n] \in Nat /\ row_start[n + 1] \in Nat
         /\ row_start[n] <= row_start[n + 1] /\ row_start[n + 1] <= num_edges
<1>1. num_edges \in Nat /\ num_nodes \in Nat /\ n \in 0 .. num_nodes /\ n + 1 \in 0 .. num_nodes
  BY DEF Loaded, Shape, FileOK
<1>2. row_start[n] \in 0 .. num_edges /\ row_start[n + 1] \in 0 .. num_edges
  <2>1. row_start \in [0 .. num_nodes -> 0 .. num_edges]
    BY DEF Loaded, Shape
  <2> QED BY <1>1, <2>1
<1>3. ASSUME row_start[n + 1] < row_start[n]
      PROVE  FALSE
  <2> DEFINE k == row_start[n + 1]
  <2>1. k \in 0 .. num_edges - 1
    BY <1>1, <1>2, <1>3
  <2>2. n + 1 <= Edge(k).src /\ ~(n <= Edge(k).src)
    BY <1>1, <1>2, <1>3, <2>1 DEF Loaded, Rows
  <2>3. Edge(k).src \in Nat
    <3>1. k + 1 \in 1 .. Len(file.edges)
      BY <1>1, <2>1 DEF Loaded, Entered, FileOK
    <3> QED BY <3>1 DEF Edge, FileOK
  <2> QED BY <1>1, <2>2, <2>3
<1> QED BY <1>1, <1>2, <1>3

\* A beginning of what is written, and all of it if nothing is lost.
LEMMA WrittenIs ==
  ASSUME NEW S, NEW lines \in Seq(S), Written(lines)
  PROVE  out' = SubSeq(lines, 1, Len(out')) /\ (lost' = 0 => out' = lines)
<1>1. PICK k \in 0 .. Len(lines) : out' = SubSeq(lines, 1, k) /\ lost' = Len(lines) - k
  BY DEF Written
<1>2. Len(SubSeq(lines, 1, k)) = k
  <2>1. \A n \in 1 .. k : lines[n] \in S
    BY <1>1
  <2>2. Len(SubSeq(lines, 1, k)) = IF 1 <= k THEN k - 1 + 1 ELSE 0
    BY <1>1, <2>1, SubSeqProperties
  <2> QED BY <2>2
<1>3. ASSUME lost' = 0 PROVE out' = lines
  <2>1. k = Len(lines)
    BY <1>1, <1>3
  <2>2. SubSeq(lines, 1, Len(lines)) = lines
    BY SubSeqFull
  <2> QED BY <1>1, <2>1, <2>2
<1> QED BY <1>1, <1>2, <1>3

\* save_file begins with the header, before the first edge of the first row.
LEMMA HeaderSaving ==
  ASSUME FileOK, Loaded, SaveHeader, pc' = "saveEdges"
  PROVE  Saving'
<1>1. /\ num_nodes \in Nat /\ num_edges \in Nat /\ row_start[0] = 0
      /\ num_nodes = 0 => num_edges = 0
  BY DEF Loaded, Shape, FileOK
<1>2. /\ out' = << <<num_nodes, num_edges>> >> /\ i' = 0 /\ e' = 0
      /\ UNCHANGED <<file, num_nodes, num_edges, row_start>>
  BY <1>1 DEF SaveHeader, graphVars
<1>3. LinesIn(out)'
  BY <1>2 DEF LinesIn
<1>4. out' \in Seq(Output)
  BY <1>1, <1>2 DEF Output
<1>5. num_nodes > 0 => 0 <= row_start[0 + 1]
  BY <1>1, RowsAscend
<1> QED BY <1>1, <1>2, <1>3, <1>4, <1>5 DEF Saving

\* The edge that save_file writes is the next one of the file.
LEMMA EdgeSaving ==
  ASSUME FileOK, Loaded, Saving, SaveEdge, pc' = pc
  PROVE  Saving'
<1>1. /\ num_nodes \in Nat /\ num_edges \in Nat /\ i \in 0 .. num_nodes - 1 /\ e \in Nat
      /\ row_start[i] <= e /\ e < row_start[i + 1]
  BY DEF Saving, SaveEdge, Loaded, Shape, FileOK
<1>2. /\ out' = Append(out, <<i, edge_dst[e], edge_wt[e]>>) /\ e' = e + 1 /\ i' = i
      /\ UNCHANGED <<file, num_nodes, num_edges, row_start>>
  BY DEF SaveEdge, graphVars
<1>3. row_start[i] \in Nat /\ row_start[i + 1] \in Nat /\ row_start[i + 1] <= num_edges
  BY <1>1, RowsAscend
<1>4. e \in 0 .. num_edges - 1
  BY <1>1, <1>3
<1>5. e + 1 \in 1 .. Len(file.edges) /\ Edge(e) = file.edges[e + 1]
  BY <1>1, <1>4 DEF Loaded, Entered, FileOK, Edge
<1>6. Edge(e).src = i /\ edge_dst[e] = Edge(e).dst /\ edge_wt[e] = Edge(e).wt
  <2>1. e \in row_start[i] .. row_start[i + 1] - 1
    BY <1>1, <1>3
  <2> QED BY <1>1, <1>4, <2>1, LoadedIsGraph DEF GraphOfFile, Edge
<1>7. <<i, edge_dst[e], edge_wt[e]>> \in Output
  BY <1>1, <1>5, <1>6 DEF Output, FileOK
<1>8. out' \in Seq(Output)
  BY <1>2, <1>7 DEF Saving
<1>9. LinesIn(out)'
  <2>1. out \in Seq(Output) /\ Len(out) = e + 1
    BY DEF Saving, LinesIn
  <2>2. Len(out') = e + 2 /\ out'[e + 2] = <<i, edge_dst[e], edge_wt[e]>>
    BY <1>1, <1>2, <2>1
  <2>3. \A k \in 1 .. e + 1 : out'[k] = out[k]
    BY <1>1, <1>2, <2>1
  <2>4. out'[1] = <<num_nodes, num_edges>>
    BY <1>1, <2>3 DEF Saving, LinesIn
  <2>5. ASSUME NEW k \in 1 .. e + 1
        PROVE  out'[k + 1] = <<file.edges[k].src, file.edges[k].dst, file.edges[k].wt>>
    <3>1. CASE k = e + 1
      BY <1>1, <1>5, <1>6, <2>2, <3>1
    <3>2. CASE k # e + 1
      <4>1. k \in 1 .. e /\ k + 1 \in 1 .. e + 1
        BY <1>1, <3>2
      <4> QED BY <2>3, <4>1 DEF Saving, LinesIn
    <3> QED BY <3>1, <3>2
  <2>6. e' = e + 1 /\ Len(out') = e' + 1 /\ file' = file
        /\ num_nodes' = num_nodes /\ num_edges' = num_edges
    BY <1>1, <1>2, <2>2
  <2>7. \A k \in 1 .. e' : out'[k + 1] = <<file'.edges[k].src, file'.edges[k].dst, file'.edges[k].wt>>
    BY <2>5, <2>6
  <2>8. out'[1] = <<num_nodes', num_edges'>>
    BY <2>4, <2>6
  <2> QED BY <2>6, <2>7, <2>8 DEF LinesIn
<1> QED BY <1>1, <1>2, <1>3, <1>4, <1>8, <1>9 DEF Saving

\* save_file goes to the next row when it has written all edges of its row.
LEMMA RowSaving ==
  ASSUME FileOK, Loaded, Saving, SaveRow
  PROVE  IF pc' = pc THEN Saving' ELSE pc' = "saved" /\ Saved'
<1>0. pc = "saveEdges" /\ out \in Seq(Output)
  BY DEF SaveRow, Saving
<1>1. /\ num_nodes \in Nat /\ num_edges \in Nat /\ i \in 0 .. num_nodes /\ e \in 0 .. num_edges
      /\ UNCHANGED <<file, num_nodes, num_edges, row_start>>
  BY DEF Saving, SaveRow, Loaded, Shape, FileOK, graphVars
<1>2. CASE /\ i < num_nodes /\ e >= row_start[i + 1] /\ i' = i + 1 /\ e' = row_start[i + 1]
           /\ UNCHANGED <<pc, out, lost>>
  <2>1. i \in 0 .. num_nodes - 1 /\ row_start[i + 1] \in Nat /\ row_start[i + 1] <= num_edges
    BY <1>1, <1>2, RowsAscend
  <2>2. e = row_start[i + 1]
    BY <1>1, <1>2, <2>1 DEF Saving
  <2>3. i + 1 < num_nodes => row_start[i + 1] <= row_start[i + 2]
    BY <1>1, <2>1, RowsAscend
  <2>4. i + 1 = num_nodes => row_start[i + 1] = num_edges
    BY DEF Loaded
  <2>5. LinesIn(out)'
    BY <1>1, <1>2, <2>2 DEF Saving, LinesIn
  <2>6. out' \in Seq(Output)
    BY <1>2 DEF Saving
  <2>7. i' \in 0 .. num_nodes' /\ e' \in 0 .. num_edges' /\ row_start'[i'] <= e'
    BY <1>1, <1>2, <2>1
  <2>8. i' < num_nodes' => e' <= row_start'[i' + 1]
    <3>1. (i + 1) + 1 = i + 2
      BY <2>1
    <3> QED BY <1>1, <1>2, <2>3, <3>1
  <2>9. i' = num_nodes' => e' = num_edges'
    BY <1>1, <1>2, <2>4
  <2>10. Saving'
    BY <2>5, <2>6, <2>7, <2>8, <2>9 DEF Saving
  <2> QED BY <1>2, <2>10
<1>3. CASE i >= num_nodes /\ pc' = "saved" /\ Written(out) /\ UNCHANGED <<i, e>>
  <2>1. e = num_edges
    BY <1>1, <1>3 DEF Saving
  <2>2. out' = SubSeq(out, 1, Len(out')) /\ (lost' = 0 => out' = out)
    BY <1>0, <1>3, WrittenIs
  <2>3. LinesIn(out) /\ UNCHANGED <<file, num_nodes, num_edges, e>>
    BY <1>1, <1>3 DEF Saving
  <2>5. \E lines \in Seq(Output) :
          /\ Len(lines) = e' + 1
          /\ lines[1] = <<num_nodes', num_edges'>>
          /\ \A k \in 1 .. e' :
               lines[k + 1] = <<file'.edges[k].src, file'.edges[k].dst, file'.edges[k].wt>>
          /\ out' = SubSeq(lines, 1, Len(out'))
          /\ lost' = 0 => out' = lines
    BY <1>0, <2>2, <2>3 DEF LinesIn
  <2>6. Saved'
    BY <1>1, <1>3, <2>1, <2>5 DEF Saved, LinesIn
  <2> QED BY <1>0, <1>3, <2>6
<1> QED BY <1>0, <1>2, <1>3 DEF SaveRow

-----------------------------------------------------------------------------
LEMMA FileInvInit == LoadInit => FileInv \/ OddInv
BY DEF LoadInit, FileInv, OddInv, Label, SSSPLabel

\* One step for each action of load_file and save_file.
LEMMA FileInvStep ==
  ASSUME FileInv, LoadStep \/ SaveStep \/ UNCHANGED fileVars
  PROVE  FileInv'
<1> USE DEF Label, SSSPLabel
<1>0. FileOK
  BY FileTypes DEF FileInv
<1>1. CASE LoadNothing
  BY <1>1 DEF LoadNothing, FileInv, Readable
<1>2. CASE LoadHeader
  BY <1>0, <1>2, HeaderReading DEF FileInv
<1>3. CASE LoadReject
  <2>1. ~Readable /\ pc' = "exit" /\ UNCHANGED file
    BY <1>0, <1>3, RejectRight DEF LoadReject, FileInv
  <2>2. ~Readable'
    BY <2>1 DEF Readable
  <2> QED BY <2>1, <2>2 DEF FileInv
<1>4. CASE LoadEdge
  <2>1. Reading' /\ pc' = "edges" /\ UNCHANGED file
    BY <1>0, <1>4, EdgeReading DEF LoadEdge, FileInv
  <2> QED BY <2>1 DEF FileInv
<1>5. CASE LoadTail
  <2>1. Loaded' /\ pc' = "loaded" /\ UNCHANGED file
    BY <1>0, <1>5, TailLoaded DEF LoadTail, FileInv
  <2> QED BY <2>1 DEF FileInv
<1>12. CASE LoadOddHeader \/ LoadTailOutside
  <2>1. ~LoadOddHeader
    BY DEF LoadOddHeader, FileInv
  <2>2. ~LoadTailOutside
    <3>1. pc = "edges" => num_nodes \in Nat
      BY <1>0 DEF FileInv, FileOK, Reading, Shape
    <3> QED BY <3>1 DEF LoadTailOutside
  <2> QED BY <1>12, <2>1, <2>2
<1>6. ASSUME Loaded, UNCHANGED <<file, graphVars>>
      PROVE  Loaded'
  BY <1>6 DEF graphVars, Loaded, Shape, Entered, Rows, Edge
<1>7. CASE CallSave
  BY <1>6, <1>7 DEF CallSave, FileInv
<1>8. CASE SaveHeader
  <2>1. Loaded' /\ file' = file /\ pc' \in {"failed", "saveEdges"}
    BY <1>6, <1>8 DEF SaveHeader, FileInv
  <2>2. pc' = "saveEdges" => Saving'
    BY <1>0, <1>8, HeaderSaving DEF SaveHeader, FileInv
  <2> QED BY <2>1, <2>2 DEF FileInv
<1>9. CASE SaveEdge
  <2>1. Loaded' /\ file' = file /\ (pc' = "failed" \/ pc' = pc) /\ pc = "saveEdges"
    BY <1>6, <1>9 DEF SaveEdge, FileInv
  <2>2. pc' = pc => Saving'
    BY <1>0, <1>9, <2>1, EdgeSaving DEF FileInv
  <2> QED BY <2>1, <2>2 DEF FileInv
<1>10. CASE SaveRow
  <2>1. Loaded' /\ file' = file /\ num_nodes' = num_nodes /\ pc = "saveEdges"
    BY <1>6, <1>10 DEF SaveRow, FileInv, graphVars
  <2>2. IF pc' = pc THEN Saving' ELSE pc' = "saved" /\ Saved'
    BY <1>0, <1>10, <2>1, RowSaving DEF FileInv
  <2> QED BY <2>1, <2>2 DEF FileInv
<1>11. CASE UNCHANGED fileVars
  <2>1. Loaded => Loaded'
    BY <1>6, <1>11 DEF fileVars
  <2>2. Reading => Reading'
    BY <1>11 DEF fileVars, graphVars, Reading, Shape, Entered, Rows, Edge
  <2>3. (Saving => Saving') /\ (Saved => Saved')
    BY <1>11 DEF fileVars, graphVars, Saving, Saved, LinesIn
  <2>4. Readable' <=> Readable
    BY <1>11 DEF fileVars, Readable
  <2> QED BY <1>11, <2>1, <2>2, <2>3, <2>4 DEF fileVars, graphVars, FileInv
<1> QED BY <1>1, <1>2, <1>3, <1>4, <1>5, <1>7, <1>8, <1>9, <1>10, <1>11, <1>12 DEF LoadStep, SaveStep

\* A file with an odd header stays without edges.
LEMMA OddStep ==
  ASSUME OddInv, [Next]_vars
  PROVE  OddInv'
<1>1. CASE LoadStep
  <2>1. file.status \notin {"header", "missing", "empty"}
    BY DEF OddInv, OddHeader
  <2>2. CASE LoadOddHeader
    <3>1. /\ num_edges' \in Int /\ i' = 0 /\ pc' = "edges" /\ file' = file
          /\ file.status = "negative" => num_edges' = file.count
      BY <2>2, FilesAssumption DEF LoadOddHeader, OddInv
    <3>2. num_edges' <= 0 \/ 1 \notin DOMAIN file.edges
      <4>1. CASE file.status = "negative"
        <5>1. /\ file.nodes < 0 \/ file.count < 0
              /\ file \in [status : FileStatus, nodes : Int, count : Int, edges : Seq(FileEdge)]
              /\ \A k \in DOMAIN file.edges : file.edges[k].src < file.nodes
          BY <4>1, FilesAssumption DEF OddInv
        <5>3. file.nodes \in Int /\ file.count \in Int /\ file.edges \in Seq(FileEdge)
          BY <5>1
        <5>2. ASSUME 1 \in DOMAIN file.edges PROVE file.nodes \in Nat
          <6>1. file.edges[1].src \in Nat
            <7>1. file.edges[1] \in FileEdge
              BY <5>2, <5>3
            <7> QED BY <7>1 DEF FileEdge
          <6> QED BY <5>1, <5>2, <5>3, <6>1
        <5> QED BY <3>1, <4>1, <5>1, <5>2, <5>3
      <4>2. CASE file.status # "negative"
        <5>1. file.edges = <<>>
          BY <4>2, FilesAssumption DEF OddInv, OddHeader
        <5> QED BY <5>1
      <4> QED BY <4>1, <4>2
    <3> QED BY <3>1, <3>2 DEF OddInv
  <2>3. CASE LoadReject
    BY <2>3 DEF LoadReject, OddInv
  <2>4. ~LoadEdge
    BY DEF LoadEdge, OddInv
  <2>5. CASE LoadTail \/ LoadTailOutside
    BY <2>5 DEF LoadTail, LoadTailOutside, OddInv, graphVars
  <2> QED BY <1>1, <2>1, <2>2, <2>3, <2>4, <2>5 DEF LoadStep, LoadNothing, LoadHeader
<1>2. CASE SaveStep \/ UseMissingArrays
  BY <1>2 DEF SaveStep, CallSave, SaveHeader, SaveEdge, SaveRow, UseMissingArrays, OddInv, graphVars
<1>3. CASE SSSPInit
  BY <1>3 DEF SSSPInit, OddInv, graphVars
<1>4. CASE Round \/ VisitNode \/ RelaxEdge
  BY <1>4 DEF Round, VisitNode, RelaxEdge, Graph, OddInv, graphVars
<1>5. CASE Pop \/ RelaxAndPush
  BY <1>5 DEF Pop, RelaxAndPush, Graph, OddInv, graphVars
<1>6. CASE WriteOutput
  BY <1>6 DEF WriteOutput, OddInv, graphVars
<1>7. CASE UNCHANGED vars
  BY <1>7 DEF vars, fileVars, graphVars, OddInv
<1> QED BY <1>1, <1>2, <1>3, <1>4, <1>5, <1>6, <1>7 DEF Next, MainStep, Terminating

-----------------------------------------------------------------------------
(***************************************************************************)
(* The table of Bellman and Ford of a file.                                *)
(***************************************************************************)
Weight == { w \in Int : w <= INF }

\* The edges a program uses are in the file.
Usable(f) ==
  /\ f \in Files /\ f.status = "header"
  /\ f.count <= Len(f.edges)

Places(f) == 0 .. f.nodes - 1
Source(f, k) == f.edges[k].src
Dest(f, k) == f.edges[k].dst
Wt(f, k) == f.edges[k].wt

LEMMA UsableTypes ==
  ASSUME NEW f, Usable(f)
  PROVE  /\ f.nodes \in Nat /\ f.count \in Nat
         /\ \A k \in 1 .. f.count :
              /\ Source(f, k) \in Places(f) /\ Dest(f, k) \in Places(f)
              /\ Wt(f, k) \in Int
         /\ f.count > 0 => f.nodes > 0
<1>1. /\ f \in [status : FileStatus, nodes : Int, count : Int, edges : Seq(FileEdge)]
      /\ f.nodes \in Nat /\ f.count \in Nat
  BY FilesAssumption DEF Usable, OddHeader
<1>2. f.nodes \in Nat /\ f.count \in Nat /\ f.edges \in Seq(FileEdge)
  BY <1>1
<1>3. Len(f.edges) \in Nat /\ DOMAIN f.edges = 1 .. Len(f.edges)
  BY <1>2
<1>4. ASSUME NEW k \in 1 .. f.count
      PROVE  /\ Source(f, k) \in Places(f) /\ Dest(f, k) \in Places(f)
             /\ Wt(f, k) \in Int
  <2>1. k \in DOMAIN f.edges
    BY <1>2, <1>3 DEF Usable
  <2>2. f.edges[k] \in FileEdge
    BY <1>2, <2>1
  <2>3. f.edges[k].src < f.nodes /\ f.edges[k].dst < f.nodes
    BY <2>1, FilesAssumption DEF Usable
  <2>. QED
    BY <1>2, <2>2, <2>3 DEF FileEdge, Source, Dest, Wt, Places
<1>5. f.count > 0 => f.nodes > 0
  <2>1. f.count > 0 => 1 \in 1 .. f.count
    BY <1>2
  <2>2. \A n \in Places(f) : f.nodes > 0
    BY <1>2 DEF Places
  <2>. QED
    BY <1>4, <2>1, <2>2
<1>. QED
  BY <1>2, <1>4, <1>5

\* The walks to v of one more edge than those of row.
Offers(f, row, v) ==
  {row[v]} \cup { row[Source(f, k)] + Wt(f, k) :
                    k \in { j \in 1 .. f.count : Dest(f, j) = v /\ row[Source(f, j)] # INF } }

\* The smallest offer exists: look at the edges one after the other.
LEMMA OfferLeast ==
  ASSUME NEW f, Usable(f), NEW row \in [Places(f) -> Weight], NEW v \in Places(f)
  PROVE  /\ Min(Offers(f, row, v)) \in Offers(f, row, v)
         /\ \A x \in Offers(f, row, v) : Min(Offers(f, row, v)) <= x
         /\ Min(Offers(f, row, v)) \in Weight
<1>. DEFINE Some(m) == {row[v]} \cup { row[Source(f, k)] + Wt(f, k) :
                         k \in { j \in 1 .. m : Dest(f, j) = v /\ row[Source(f, j)] # INF } }
            Bad == { m \in 0 .. f.count : ~ \E x \in Some(m) : \A y \in Some(m) : x <= y }
<1>0. /\ f.count \in Nat
      /\ \A k \in 1 .. f.count : row[Source(f, k)] \in Int /\ Wt(f, k) \in Int
      /\ row[v] \in Int /\ row[v] <= INF
  <2>1. \A n \in Places(f) : row[n] \in Int /\ row[n] <= INF
    BY DEF Weight
  <2>. QED
    BY <2>1, UsableTypes
<1>1. \A m \in 0 .. f.count : Some(m) \subseteq Int
  BY <1>0
<1>2. ASSUME Bad # {}
      PROVE  FALSE
  <2>1. Bad \subseteq Nat
    BY <1>0
  <2>2. PICK m \in Bad : \A j \in Bad : ~(<<j, m>> \in OpToRel(<, Nat))
    <3>. HIDE DEF Bad
    <3>. QED
      BY <1>2, <2>1, WFMin, NatLessThanWellFounded
  <2>3. m \in 0 .. f.count /\ m \in Nat /\ \A j \in Bad : ~(j < m)
    BY <2>1, <2>2 DEF OpToRel
  <2>4. m # 0
    <3>1. Some(0) = {row[v]}
      OBVIOUS
    <3>2. \E x \in Some(0) : \A y \in Some(0) : x <= y
      BY <1>0, <3>1
    <3>. QED
      BY <2>2, <3>2
  <2>5. m - 1 \in 0 .. f.count /\ m - 1 < m /\ m \in 1 .. f.count
    BY <1>0, <2>3, <2>4
  <2>6. PICK x \in Some(m - 1) : \A y \in Some(m - 1) : x <= y
    BY <2>3, <2>5
  <2>7. x \in Int
    BY <1>1, <2>5, <2>6
  <2>. DEFINE z == row[Source(f, m)] + Wt(f, m)
  <2>8. z \in Int
    BY <1>0, <2>5
  <2>9. 1 .. m = (1 .. m - 1) \cup {m}
    BY <2>3, <2>5
  <2>10. Some(m) \subseteq Some(m - 1) \cup {z} /\ Some(m - 1) \subseteq Some(m)
    BY <2>9
  <2>11. CASE z \in Some(m)
    <3>1. CASE z <= x
      <4>1. \A y \in Some(m) : z <= y
        <5>1. \A y \in Some(m - 1) : y \in Int
          BY <1>1, <2>5
        <5>. HIDE DEF Some, z
        <5>. QED
          BY <2>6, <2>7, <2>8, <2>10, <3>1, <5>1
      <4>. HIDE DEF Some, z
      <4>. QED
        BY <2>2, <2>11, <4>1
    <3>2. CASE ~(z <= x)
      <4>1. \A y \in Some(m) : x <= y
        <5>. HIDE DEF Some, z
        <5>. QED
          BY <2>6, <2>7, <2>8, <2>10, <3>2
      <4>2. x \in Some(m)
        BY <2>6, <2>10
      <4>. HIDE DEF Some, z
      <4>. QED
        BY <2>2, <4>1, <4>2
    <3>. QED
      BY <3>1, <3>2
  <2>12. CASE z \notin Some(m)
    <3>. HIDE DEF Some, z
    <3>1. Some(m) \subseteq Some(m - 1)
      BY <2>10, <2>12
    <3>2. x \in Some(m) /\ \A y \in Some(m) : x <= y
      BY <2>6, <2>10, <3>1
    <3>. QED
      BY <2>2, <3>2
  <2>. QED
    BY <2>11, <2>12
<1>3. f.count \in 0 .. f.count /\ Some(f.count) = Offers(f, row, v)
  BY <1>0 DEF Offers
<1>. HIDE DEF Some
<1>4. \E x \in Offers(f, row, v) : \A y \in Offers(f, row, v) : x <= y
  BY <1>2, <1>3
<1>5. /\ Min(Offers(f, row, v)) \in Offers(f, row, v)
      /\ \A x \in Offers(f, row, v) : Min(Offers(f, row, v)) <= x
  BY <1>4 DEF Min
<1>6. Offers(f, row, v) \subseteq Int /\ row[v] \in Offers(f, row, v)
  BY <1>1, <1>3 DEF Offers
<1>7. Min(Offers(f, row, v)) <= row[v] /\ Min(Offers(f, row, v)) \in Int
  BY <1>5, <1>6
<1>8. INF \in Int
  BY INFAssumption
<1>. HIDE DEF Bad
<1>9. Min(Offers(f, row, v)) <= INF
  BY <1>0, <1>7, <1>8
<1>. QED
  BY <1>5, <1>7, <1>9 DEF Weight

LEMMA OneMoreIs ==
  ASSUME NEW f, Usable(f), NEW row \in [Places(f) -> Weight]
  PROVE  /\ OneMoreEdge(f, row) = [v \in Places(f) |-> Min(Offers(f, row, v))]
         /\ OneMoreEdge(f, row) \in [Places(f) -> Weight]
<1>1. OneMoreEdge(f, row) = [v \in Places(f) |-> Min(Offers(f, row, v))]
  BY DEF OneMoreEdge, Offers, Source, Dest, Wt, Places
<1>2. \A v \in Places(f) : Min(Offers(f, row, v)) \in Weight
  BY OfferLeast
<1>. QED
  BY <1>1, <1>2

\* The first m rows of the table exist, whatever m: HopDist is well defined.
InitRow(f) == [v \in Places(f) |-> InitDist(v)]
IsTable(f, h, m) ==
  h = [k \in 0 .. m |-> IF k = 0 THEN InitRow(f) ELSE OneMoreEdge(f, h[k - 1])]

LEMMA TableExists ==
  ASSUME NEW f, f.nodes \in Nat
  PROVE  \E h : IsTable(f, h, f.nodes)
<1>. DEFINE Bad == { m \in 0 .. f.nodes : ~ \E h : IsTable(f, h, m) }
<1>1. SUFFICES ASSUME Bad # {} PROVE FALSE
  <2>1. f.nodes \in 0 .. f.nodes
    OBVIOUS
  <2>. QED
    BY <1>1, <2>1
<1>2. Bad \subseteq Nat
  OBVIOUS
<1>3. PICK m \in Bad : \A j \in Bad : ~(<<j, m>> \in OpToRel(<, Nat))
  <2>. HIDE DEF Bad
  <2>. QED
    BY <1>1, <1>2, WFMin, NatLessThanWellFounded
<1>4. m \in 0 .. f.nodes /\ m \in Nat /\ \A j \in Bad : ~(j < m)
  BY <1>2, <1>3 DEF OpToRel
<1>5. m # 0
  <2>. DEFINE h == [k \in 0 .. 0 |-> InitRow(f)]
  <2>1. \A k \in 0 .. 0 : k = 0
    OBVIOUS
  <2>2. IsTable(f, h, 0)
    BY <2>1 DEF IsTable
  <2>. QED
    BY <1>3, <2>2
<1>6. m - 1 \in 0 .. f.nodes /\ m - 1 < m /\ m - 1 \in Nat
  BY <1>4, <1>5
<1>7. PICK h : IsTable(f, h, m - 1)
  BY <1>4, <1>6
<1>. DEFINE g == [k \in 0 .. m |-> IF k = m THEN OneMoreEdge(f, h[m - 1]) ELSE h[k]]
<1>8. \A k \in 0 .. m - 1 : h[k] = IF k = 0 THEN InitRow(f) ELSE OneMoreEdge(f, h[k - 1])
  BY <1>7 DEF IsTable
<1>9. ASSUME NEW k \in 0 .. m
      PROVE  g[k] = IF k = 0 THEN InitRow(f) ELSE OneMoreEdge(f, g[k - 1])
  <2>1. CASE k = m
    <3>1. k # 0 /\ k - 1 = m - 1 /\ m - 1 \in 0 .. m /\ m - 1 # m
      BY <1>4, <1>5, <2>1
    <3>2. g[m - 1] = h[m - 1] /\ g[k] = OneMoreEdge(f, h[m - 1])
      BY <2>1, <3>1
    <3>. HIDE DEF g
    <3>. QED
      BY <3>1, <3>2
  <2>2. CASE k # m
    <3>1. k \in 0 .. m - 1 /\ (k # 0 => k - 1 \in 0 .. m /\ k - 1 # m)
      BY <1>4, <2>2
    <3>2. g[k] = h[k] /\ (k # 0 => g[k - 1] = h[k - 1])
      BY <2>2, <3>1
    <3>. HIDE DEF g
    <3>. QED
      BY <1>8, <3>1, <3>2
  <2>. QED
    BY <2>1, <2>2
<1>10. DOMAIN g = 0 .. m /\ g = [k \in 0 .. m |-> g[k]]
  OBVIOUS
<1>. HIDE DEF g
<1>11. IsTable(f, g, m)
  BY <1>9, <1>10 DEF IsTable
<1>. QED
  BY <1>3, <1>11

\* Its rows.
LEMMA HopRows ==
  ASSUME NEW f, Usable(f)
  PROVE  /\ \A k \in 0 .. f.nodes : HopDist(f)[k] \in [Places(f) -> Weight]
         /\ \A v \in Places(f) : HopDist(f)[0][v] = InitDist(v)
         /\ \A k \in 1 .. f.nodes : HopDist(f)[k] = OneMoreEdge(f, HopDist(f)[k - 1])
<1>. DEFINE h == HopDist(f)
<1>1. f.nodes \in Nat
  BY UsableTypes
<1>2. h = CHOOSE t : IsTable(f, t, f.nodes)
  BY DEF HopDist, IsTable, InitRow, Places
<1>3. IsTable(f, h, f.nodes)
  BY <1>1, <1>2, TableExists
<1>. HIDE DEF h
<1>4. \A k \in 0 .. f.nodes : h[k] = IF k = 0 THEN InitRow(f) ELSE OneMoreEdge(f, h[k - 1])
  BY <1>3 DEF IsTable
<1>5. h[0] = InitRow(f) /\ \A k \in 1 .. f.nodes : h[k] = OneMoreEdge(f, h[k - 1])
  BY <1>1, <1>4
<1>6. h[0] \in [Places(f) -> Weight]
  <2>1. \A v \in Places(f) : InitDist(v) \in Weight
    BY INFAssumption DEF InitDist, Weight
  <2>. QED
    BY <1>5, <2>1 DEF InitRow
<1>. DEFINE Bad == { k \in 0 .. f.nodes : ~(h[k] \in [Places(f) -> Weight]) }
<1>7. ASSUME Bad # {}
      PROVE  FALSE
  <2>1. Bad \subseteq Nat
    BY <1>1
  <2>2. PICK m \in Bad : \A j \in Bad : ~(<<j, m>> \in OpToRel(<, Nat))
    <3>. HIDE DEF Bad
    <3>. QED
      BY <1>7, <2>1, WFMin, NatLessThanWellFounded
  <2>3. m \in 0 .. f.nodes /\ m \in Nat /\ \A j \in Bad : ~(j < m)
    BY <2>1, <2>2 DEF OpToRel
  <2>4. m # 0
    BY <1>6, <2>2
  <2>5. m - 1 \in 0 .. f.nodes /\ m - 1 < m /\ m \in 1 .. f.nodes
    BY <1>1, <2>3, <2>4
  <2>6. h[m - 1] \in [Places(f) -> Weight]
    BY <2>3, <2>5
  <2>7. h[m] \in [Places(f) -> Weight]
    BY <1>5, <2>5, <2>6, OneMoreIs
  <2>. QED
    BY <2>2, <2>7
<1>8. h[0] = [v \in Places(f) |-> InitDist(v)]
  BY <1>5 DEF InitRow
<1>. QED
  BY <1>5, <1>7, <1>8 DEF h

\* What a row says about the next one, and what the last one says.
LEMMA HopFacts ==
  ASSUME NEW f, Usable(f), NEW k \in 0 .. f.nodes, k + 1 \in 0 .. f.nodes, NEW v \in Places(f)
  PROVE  /\ HopDist(f)[k][v] \in Int /\ HopDist(f)[k][v] <= INF
         /\ HopDist(f)[k + 1][v] \in Int
         /\ HopDist(f)[k + 1][v] <= HopDist(f)[k][v]
         /\ HopDist(f)[k + 1][v] \in Offers(f, HopDist(f)[k], v)
<1>1. f.nodes \in Nat
  BY UsableTypes
<1>2. HopDist(f)[k] \in [Places(f) -> Weight] /\ HopDist(f)[k + 1] \in [Places(f) -> Weight]
  BY HopRows
<1>3. HopDist(f)[k + 1] = OneMoreEdge(f, HopDist(f)[k])
  <2>1. k + 1 \in 1 .. f.nodes /\ (k + 1) - 1 = k
    BY <1>1
  <2>2. HopDist(f)[k + 1] = OneMoreEdge(f, HopDist(f)[(k + 1) - 1])
    BY <2>1, HopRows
  <2>. QED
    BY <2>1, <2>2
<1>4. HopDist(f)[k + 1][v] = Min(Offers(f, HopDist(f)[k], v))
  BY <1>2, <1>3, OneMoreIs
<1>5. HopDist(f)[k][v] \in Offers(f, HopDist(f)[k], v)
  BY DEF Offers
<1>. QED
  BY <1>2, <1>4, <1>5, OfferLeast DEF Weight

\* A table that is below row k, and in which every edge has been relaxed from
\* row k, is below row k + 1.
LEMMA HopReached ==
  ASSUME NEW f, Usable(f), NEW k \in 0 .. f.nodes, k + 1 \in 0 .. f.nodes,
         NEW d \in [Places(f) -> Int],
         \A v \in Places(f) : d[v] <= HopDist(f)[k][v],
         \A j \in 1 .. f.count : HopDist(f)[k][Source(f, j)] # INF =>
           d[Dest(f, j)] <= HopDist(f)[k][Source(f, j)] + Wt(f, j),
         NEW v \in Places(f)
  PROVE  d[v] <= HopDist(f)[k + 1][v]
<1>1. HopDist(f)[k + 1][v] \in Offers(f, HopDist(f)[k], v)
  BY HopFacts
<1>2. CASE HopDist(f)[k + 1][v] = HopDist(f)[k][v]
  BY <1>2
<1>3. CASE HopDist(f)[k + 1][v] # HopDist(f)[k][v]
  <2>1. PICK j \in 1 .. f.count :
               /\ Dest(f, j) = v /\ HopDist(f)[k][Source(f, j)] # INF
               /\ HopDist(f)[k + 1][v] = HopDist(f)[k][Source(f, j)] + Wt(f, j)
    BY <1>1, <1>3 DEF Offers
  <2>. QED
    BY <2>1
<1>. QED
  BY <1>2, <1>3

\* A table no edge can lower.
Closed(f, d) ==
  \A k \in 1 .. f.count : d[Source(f, k)] # INF =>
    d[Dest(f, k)] <= d[Source(f, k)] + Wt(f, k)

\* A closed table that is not above the initial one is below every row.
LEMMA ClosedIsBelow ==
  ASSUME NEW f, Usable(f), NEW d \in [Places(f) -> Weight], Closed(f, d),
         \A v \in Places(f) : d[v] <= InitDist(v),
         NEW m \in 0 .. f.nodes
  PROVE  \A v \in Places(f) : d[v] <= HopDist(f)[m][v]
<1>. DEFINE Bad == { k \in 0 .. f.nodes : \E v \in Places(f) : ~(d[v] <= HopDist(f)[k][v]) }
<1>0. f.nodes \in Nat
  BY UsableTypes
<1>1. SUFFICES ASSUME Bad # {} PROVE FALSE
  BY <1>1
<1>2. Bad \subseteq Nat
  BY <1>0
<1>3. PICK k \in Bad : \A j \in Bad : ~(<<j, k>> \in OpToRel(<, Nat))
  <2>. HIDE DEF Bad
  <2>. QED
    BY <1>1, <1>2, WFMin, NatLessThanWellFounded
<1>4. k \in 0 .. f.nodes /\ \A j \in Bad : ~(j < k)
  BY <1>2, <1>3 DEF OpToRel
<1>5. PICK v \in Places(f) : ~(d[v] <= HopDist(f)[k][v])
  BY <1>3
<1>6. CASE k = 0
  BY <1>5, <1>6, HopRows
<1>7. CASE k # 0
  <2>. DEFINE j == k - 1
  <2>1. j \in 0 .. f.nodes /\ k = j + 1 /\ j < k /\ j + 1 \in 0 .. f.nodes
    BY <1>0, <1>4, <1>7
  <2>2. \A n \in Places(f) : d[n] <= HopDist(f)[j][n]
    BY <1>4, <2>1
  <2>. HIDE DEF j
  <2>3. ASSUME NEW x \in 1 .. f.count, HopDist(f)[j][Source(f, x)] # INF
        PROVE  d[Dest(f, x)] <= HopDist(f)[j][Source(f, x)] + Wt(f, x)
    <3>1. Source(f, x) \in Places(f) /\ Dest(f, x) \in Places(f) /\ Wt(f, x) \in Int
      BY UsableTypes
    <3>2. HopDist(f)[j][Source(f, x)] \in Int /\ HopDist(f)[j][Source(f, x)] <= INF
      BY <2>1, <3>1, HopFacts
    <3>3. /\ d[Source(f, x)] \in Int /\ d[Dest(f, x)] \in Int
          /\ d[Source(f, x)] <= HopDist(f)[j][Source(f, x)]
      BY <2>2, <3>1 DEF Weight
    <3>4. INF \in Int
      BY INFAssumption
    <3>5. d[Source(f, x)] # INF
      BY <2>3, <3>2, <3>3, <3>4
    <3>6. d[Dest(f, x)] <= d[Source(f, x)] + Wt(f, x)
      BY <3>5 DEF Closed
    <3>. QED
      BY <3>1, <3>2, <3>3, <3>6
  <2>4. d \in [Places(f) -> Int]
    BY DEF Weight
  <2>5. d[v] <= HopDist(f)[j + 1][v]
    BY <2>1, <2>2, <2>3, <2>4, HopReached
  <2>. QED
    BY <1>5, <2>1, <2>5
<1>. QED
  BY <1>6, <1>7

LastRow(f) == HopDist(f)[f.nodes - 1]

\* The last row is the table of shortest distances: no edge can lower it, and
\* it is not above the initial one.
LEMMA LastFacts ==
  ASSUME NEW f, Usable(f), f.nodes > 0
  PROVE  /\ f.nodes - 1 \in 0 .. f.nodes
         /\ LastRow(f) \in [Places(f) -> Weight]
         /\ Closed(f, LastRow(f))
         /\ \A v \in Places(f) : LastRow(f)[v] <= InitDist(v)
<1>0. f.nodes \in Nat /\ f.nodes - 1 \in 0 .. f.nodes
  BY UsableTypes
<1>1. LastRow(f) \in [Places(f) -> Weight]
  BY <1>0, HopRows DEF LastRow
<1>2. Closed(f, LastRow(f))
  BY NoNegativeCycle DEF Usable, LastRow, Closed, Source, Dest, Wt
<1>3. ASSUME NEW v \in Places(f)
      PROVE  LastRow(f)[v] <= InitDist(v)
  <2>. DEFINE Bad == { k \in 0 .. f.nodes : ~(HopDist(f)[k][v] <= HopDist(f)[0][v]) }
  <2>1. ASSUME Bad # {} PROVE FALSE
    <3>1. Bad \subseteq Nat
      BY <1>0
    <3>2. PICK k \in Bad : \A j \in Bad : ~(<<j, k>> \in OpToRel(<, Nat))
      <4>. HIDE DEF Bad
      <4>. QED
        BY <2>1, <3>1, WFMin, NatLessThanWellFounded
    <3>3. k \in 0 .. f.nodes /\ \A j \in Bad : ~(j < k)
      BY <3>1, <3>2 DEF OpToRel
    <3>4. k # 0
      <4>1. 0 \in 0 .. f.nodes /\ 0 + 1 \in 0 .. f.nodes
        BY <1>0
      <4>2. HopDist(f)[0][v] \in Int
        BY <4>1, HopFacts
      <4>3. HopDist(f)[0][v] <= HopDist(f)[0][v]
        BY <4>2
      <4>. QED
        BY <3>2, <4>3
    <3>. DEFINE j == k - 1
    <3>5. j \in 0 .. f.nodes /\ k = j + 1 /\ j + 1 \in 0 .. f.nodes /\ j < k
      BY <1>0, <3>3, <3>4
    <3>6. HopDist(f)[j][v] <= HopDist(f)[0][v]
      BY <3>3, <3>5
    <3>7. 0 \in 0 .. f.nodes /\ 0 + 1 \in 0 .. f.nodes
      BY <1>0
    <3>. HIDE DEF j
    <3>8. /\ HopDist(f)[j][v] \in Int /\ HopDist(f)[j + 1][v] \in Int /\ HopDist(f)[0][v] \in Int
          /\ HopDist(f)[j + 1][v] <= HopDist(f)[j][v]
      BY <3>5, <3>7, HopFacts
    <3>9. HopDist(f)[k][v] <= HopDist(f)[0][v]
      BY <3>5, <3>6, <3>8
    <3>. QED
      BY <3>2, <3>9
  <2>2. HopDist(f)[f.nodes - 1][v] <= HopDist(f)[0][v]
    BY <1>0, <2>1
  <2>. QED
    BY <2>2, HopRows DEF LastRow
<1>. QED
  BY <1>0, <1>1, <1>2, <1>3

\* A closed table between the last row and the initial one is the last row.
LEMMA ClosedIsLast ==
  ASSUME NEW f, Usable(f), NEW d \in [Places(f) -> Weight], Closed(f, d),
         \A v \in Places(f) : d[v] <= InitDist(v) /\ LastRow(f)[v] <= d[v]
  PROVE  \A v \in Places(f) : d[v] = LastRow(f)[v]
<1>. SUFFICES ASSUME NEW v \in Places(f)
              PROVE  d[v] = LastRow(f)[v]
  OBVIOUS
<1>1. f.nodes > 0
  BY UsableTypes DEF Places
<1>2. d[v] <= HopDist(f)[f.nodes - 1][v]
  BY <1>1, LastFacts, ClosedIsBelow
<1>3. d[v] \in Int /\ LastRow(f)[v] \in Int
  BY <1>1, LastFacts DEF Weight
<1>. QED
  BY <1>2, <1>3 DEF LastRow

-----------------------------------------------------------------------------
(***************************************************************************)
(* The ring of serialqueue.h.                                              *)
(***************************************************************************)
RingOK(q) ==
  /\ q \in [qsize : Nat \ {0}, head : Nat, tail : Nat, items : [0 .. q.qsize - 1 -> Nat]]
  /\ q.head < q.qsize /\ q.tail < q.qsize

LEMMA ModWrap ==
  ASSUME NEW n \in Nat, n > 0, NEW a \in Int, -n <= a, a < 2 * n
  PROVE  a % n = IF a < 0 THEN a + n ELSE IF a < n THEN a ELSE a - n
<1>1. CASE a < 0
  BY <1>1
<1>2. CASE 0 <= a /\ a < n
  BY <1>2
<1>3. CASE n <= a
  BY <1>3
<1>. QED
  BY <1>1, <1>2, <1>3

\* c taken back into the ring once, and the items from h + 1 on.
Wrap(c, n) == IF c < n THEN c ELSE c - n
Distance(h, t, n) == IF t >= h THEN t - h ELSE t - h + n
Between(h, t, n, items) == { items[Wrap(h + k, n)] : k \in 1 .. Distance(h, t, n) }

LEMMA WrapType ==
  ASSUME NEW n \in Nat, NEW h \in 0 .. n - 1, NEW k \in 0 .. n
  PROVE  /\ (h + k) % n = Wrap(h + k, n)
         /\ Wrap(h + k, n) \in 0 .. n - 1
<1>1. n > 0 /\ h + k \in Int /\ -n <= h + k /\ h + k < 2 * n /\ ~(h + k < 0)
  OBVIOUS
<1>2. (h + k) % n = IF h + k < n THEN h + k ELSE h + k - n
  BY ONLY <1>1, n \in Nat, ModWrap
<1>3. Wrap(h + k, n) \in 0 .. n - 1
  BY <1>1 DEF Wrap
<1>. QED
  BY <1>2, <1>3 DEF Wrap

LEMMA DistanceType ==
  ASSUME NEW n \in Nat, NEW h \in 0 .. n - 1, NEW t \in 0 .. n - 1
  PROVE  /\ (t - h) % n = Distance(h, t, n)
         /\ Distance(h, t, n) \in 0 .. n - 1
         /\ h = t <=> Distance(h, t, n) = 0
<1>1. n > 0 /\ t - h \in Int /\ -n <= t - h /\ t - h < n /\ t - h < 2 * n
  OBVIOUS
<1>2. (t - h) % n = IF t - h < 0 THEN t - h + n ELSE IF t - h < n THEN t - h ELSE t - h - n
  BY ONLY <1>1, n \in Nat, ModWrap
<1>3. (t - h) % n = IF t - h < 0 THEN t - h + n ELSE t - h
  BY ONLY <1>1, <1>2
<1>4. t - h < 0 <=> ~(t >= h)
  OBVIOUS
<1>5. Distance(h, t, n) \in 0 .. n - 1 /\ (h = t <=> Distance(h, t, n) = 0)
  BY DEF Distance
<1>. QED
  BY <1>3, <1>4, <1>5 DEF Distance

LEMMA QueuedIs ==
  ASSUME NEW q, RingOK(q)
  PROVE  Queued(q) = Between(q.head, q.tail, q.qsize, q.items)
<1>1. q.qsize \in Nat /\ q.head \in 0 .. q.qsize - 1 /\ q.tail \in 0 .. q.qsize - 1
  BY DEF RingOK
<1>2. (q.tail - q.head) % q.qsize = Distance(q.head, q.tail, q.qsize)
  BY <1>1, DistanceType
<1>3. \A k \in 1 .. Distance(q.head, q.tail, q.qsize) : k \in 0 .. q.qsize
  <2>1. Distance(q.head, q.tail, q.qsize) \in 0 .. q.qsize - 1
    BY ONLY <1>1, DistanceType
  <2>. QED
    BY <1>1, <2>1
<1>4. ASSUME NEW k \in 1 .. Distance(q.head, q.tail, q.qsize)
      PROVE  (q.head + k) % q.qsize = Wrap(q.head + k, q.qsize)
  <2>1. k \in 0 .. q.qsize
    BY <1>3
  <2>. QED
    BY ONLY <1>1, <2>1, WrapType
<1>. QED
  BY <1>2, <1>4 DEF Queued, Between

\* An item that is pushed is behind the others.
LEMMA PushedIs ==
  ASSUME NEW q, RingOK(q), ~IsFull(q), NEW x \in Nat
  PROVE  /\ RingOK(Pushed(q, x))
         /\ Pushed(q, x).qsize = q.qsize
         /\ Queued(Pushed(q, x)) = Queued(q) \cup {x}
<1>. DEFINE n == q.qsize
            h == q.head
            t == q.tail
            cell == Wrap(t + 1, n)
            p == Pushed(q, x)
<1>1. n \in Nat /\ n > 0 /\ h \in 0 .. n - 1 /\ t \in 0 .. n - 1 /\ q.items \in [0 .. n - 1 -> Nat]
  BY DEF RingOK
<1>2. (t + 1) % n = cell /\ cell \in 0 .. n - 1
  <2>1. 1 \in 0 .. n
    BY <1>1
  <2>. HIDE DEF n, t
  <2>. QED
    BY <1>1, <2>1, WrapType
<1>3. cell # h
  BY <1>2 DEF IsFull
<1>4. p = [qsize |-> n, head |-> h, tail |-> cell, items |-> [q.items EXCEPT ![cell] = x]]
  <2>1. p = [q EXCEPT !.tail = cell, !.items[cell] = x]
    BY <1>2, Zenon DEF Pushed
  <2>2. q = [qsize |-> n, head |-> h, tail |-> t, items |-> q.items]
    BY DEF RingOK
  <2>. HIDE DEF n, h, t, cell, p
  <2>3. [q EXCEPT !.tail = cell, !.items[cell] = x]
          = [[q EXCEPT !.tail = cell] EXCEPT !.items = [@ EXCEPT ![cell] = x]]
    OBVIOUS
  <2>4. [q EXCEPT !.tail = cell] = [qsize |-> n, head |-> h, tail |-> cell, items |-> q.items]
    BY ONLY <2>2
  <2>. DEFINE items == q.items
  <2>. HIDE DEF items
  <2>5. [ [qsize |-> n, head |-> h, tail |-> cell, items |-> items] EXCEPT !.items = [@ EXCEPT ![cell] = x]]
          = [qsize |-> n, head |-> h, tail |-> cell, items |-> [items EXCEPT ![cell] = x]]
    OBVIOUS
  <2>. USE DEF items
  <2>. QED
    BY <2>1, <2>3, <2>4, <2>5, Zenon
<1>5. p.qsize = n /\ p.head = h /\ p.tail = cell /\ p.items = [q.items EXCEPT ![cell] = x]
  BY <1>4
<1>6. RingOK(p)
  <2>1. p.items \in [0 .. n - 1 -> Nat]
    BY <1>1, <1>2, <1>5
  <2>. HIDE DEF n, h, cell, p
  <2>. QED
    BY <1>1, <1>2, <1>4, <1>5, <2>1 DEF RingOK
<1>. HIDE DEF p
<1>7. Queued(q) = Between(h, t, n, q.items) /\ Queued(p) = Between(h, cell, n, p.items)
  BY <1>5, <1>6, QueuedIs
<1>8. Distance(h, cell, n) = Distance(h, t, n) + 1 /\ Distance(h, t, n) \in Nat
  <2>. HIDE DEF n, h, t
  <2>. QED
    BY <1>1, <1>2, <1>3 DEF Distance, Wrap
<1>9. ASSUME NEW k \in 1 .. Distance(h, t, n)
      PROVE  Wrap(h + k, n) \in 0 .. n - 1 /\ Wrap(h + k, n) # cell
  <2>. HIDE DEF n, h, t
  <2>. QED
    BY <1>1, <1>2, <1>3 DEF Distance, Wrap
<1>10. Wrap(h + (Distance(h, t, n) + 1), n) = cell
  <2>. HIDE DEF n, h, t
  <2>. QED
    BY <1>1, <1>2, <1>3 DEF Distance, Wrap
<1>. DEFINE m == Distance(h, t, n)
<1>11. 1 .. m + 1 = (1 .. m) \cup {m + 1}
  BY <1>8
<1>12. \A k \in 1 .. m : p.items[Wrap(h + k, n)] = q.items[Wrap(h + k, n)]
  <2>1. \A c \in 0 .. n - 1 : c # cell => p.items[c] = q.items[c]
    BY <1>1, <1>5
  <2>. QED
    BY <1>9, <2>1
<1>13. p.items[Wrap(h + (m + 1), n)] = x
  BY <1>1, <1>2, <1>5, <1>10
<1>14. Queued(p) = { p.items[Wrap(h + k, n)] : k \in 1 .. m + 1 }
  BY <1>7, <1>8 DEF Between
<1>15. Queued(q) = { q.items[Wrap(h + k, n)] : k \in 1 .. m }
  BY <1>7 DEF Between
<1>16. Queued(p) = Queued(q) \cup {x}
  <2>. HIDE DEF n, h, t, m, cell
  <2>. QED
    BY <1>11, <1>12, <1>13, <1>14, <1>15
<1>. QED
  BY <1>5, <1>6, <1>16 DEF p

\* pop takes the first item away and leaves the others.
LEMMA PoppedIs ==
  ASSUME NEW q, RingOK(q), ~IsEmpty(q)
  PROVE  /\ RingOK(Popped(q))
         /\ Popped(q).qsize = q.qsize
         /\ Queued(q) = Queued(Popped(q)) \cup {FirstItem(q)}
<1>. DEFINE n == q.qsize
            h == q.head
            t == q.tail
            g == Wrap(h + 1, n)
            p == Popped(q)
<1>1. n \in Nat /\ n > 0 /\ h \in 0 .. n - 1 /\ t \in 0 .. n - 1 /\ q.items \in [0 .. n - 1 -> Nat]
  BY DEF RingOK
<1>2. (h + 1) % n = g /\ g \in 0 .. n - 1
  <2>1. 1 \in 0 .. n
    BY <1>1
  <2>. HIDE DEF n, h
  <2>. QED
    BY <1>1, <2>1, WrapType
<1>3. h # t
  BY DEF IsEmpty
<1>4. p = [qsize |-> n, head |-> g, tail |-> t, items |-> q.items]
  BY <1>2 DEF Popped, RingOK
<1>5. p.qsize = n /\ p.head = g /\ p.tail = t /\ p.items = q.items
  BY <1>4
<1>6. RingOK(p)
  <2>. HIDE DEF n, h, t, g, p
  <2>. QED
    BY <1>1, <1>2, <1>4, <1>5 DEF RingOK
<1>. HIDE DEF p
<1>7. Queued(q) = Between(h, t, n, q.items) /\ Queued(p) = Between(g, t, n, q.items)
  BY <1>5, <1>6, QueuedIs
<1>8. Distance(h, t, n) = Distance(g, t, n) + 1 /\ Distance(g, t, n) \in Nat
  <2>. HIDE DEF n, h, t
  <2>. QED
    BY <1>1, <1>2, <1>3 DEF Distance, Wrap
<1>. DEFINE m == Distance(g, t, n)
<1>9. ASSUME NEW k \in 1 .. m
      PROVE  Wrap(h + (k + 1), n) = Wrap(g + k, n)
  <2>. HIDE DEF n, h, t
  <2>. QED
    BY <1>1, <1>2, <1>3 DEF Distance, Wrap
<1>10. FirstItem(q) = q.items[g]
  BY <1>2 DEF FirstItem
<1>11. Queued(q) = { q.items[Wrap(h + k, n)] : k \in 1 .. m + 1 }
  BY <1>7, <1>8 DEF Between
<1>12. Queued(p) = { q.items[Wrap(g + k, n)] : k \in 1 .. m }
  BY <1>7 DEF Between
<1>13. /\ \A k \in 1 .. m + 1 : k = 1 \/ (k - 1 \in 1 .. m /\ (k - 1) + 1 = k)
       /\ 1 \in 1 .. m + 1
       /\ \A k \in 1 .. m : k + 1 \in 1 .. m + 1
  BY <1>8
<1>14. Queued(q) = Queued(p) \cup {FirstItem(q)}
  <2>. HIDE DEF m, n, h, t
  <2>1. \A x \in Queued(q) : x \in Queued(p) \/ x = q.items[g]
    BY <1>9, <1>11, <1>12, <1>13
  <2>2. \A x \in Queued(p) : x \in Queued(q)
    BY <1>9, <1>11, <1>12, <1>13
  <2>3. q.items[g] \in Queued(q)
    BY <1>11, <1>13
  <2>. QED
    BY <1>10, <2>1, <2>2, <2>3
<1>. QED
  BY <1>5, <1>6, <1>14 DEF p

LEMMA EmptyIs ==
  ASSUME NEW q, RingOK(q), IsEmpty(q)
  PROVE  Queued(q) = {}
<1>1. q.qsize \in Nat /\ q.head \in 0 .. q.qsize - 1 /\ q.tail \in 0 .. q.qsize - 1
  BY DEF RingOK
<1>2. q.head = q.tail
  BY DEF IsEmpty
<1>3. Distance(q.head, q.tail, q.qsize) = 0
  BY ONLY <1>1, <1>2, DistanceType
<1>4. 1 .. 0 = {}
  OBVIOUS
<1>5. Between(q.head, q.tail, q.qsize, q.items) = {}
  BY <1>3, <1>4 DEF Between
<1>. QED
  BY <1>5, QueuedIs

\* A new queue is empty, and full only if it is for nothing.
LEMMA NewIs ==
  ASSUME NEW m \in Nat
  PROVE  RingOK(NewQueue(m)) /\ IsEmpty(NewQueue(m)) /\ (m > 0 => ~IsFull(NewQueue(m)))
<1>1. RingOK(NewQueue(m)) /\ IsEmpty(NewQueue(m))
  BY DEF NewQueue, RingOK, IsEmpty
<1>2. ASSUME m > 0
      PROVE  ~IsFull(NewQueue(m))
  <2>1. m + 1 \in Nat /\ m + 1 > 0 /\ 1 \in Int /\ -(m + 1) <= 1 /\ 1 < 2 * (m + 1) /\ 1 < m + 1
    BY <1>2
  <2>2. 1 % (m + 1) = 1
    BY ONLY <2>1, ModWrap
  <2>3. NewQueue(m).tail + 1 = 1 /\ NewQueue(m).head = 0 /\ NewQueue(m).qsize = m + 1
    BY DEF NewQueue
  <2>. QED
    BY <2>2, <2>3 DEF IsFull
<1>. QED
  BY <1>1, <1>2

-----------------------------------------------------------------------------
(***************************************************************************)
(* The invariant of the two programs.                                      *)
(***************************************************************************)
Dist(n) == TrueDist[n]
FileEdges == 1 .. file.count

\* Before sssp_init there are no rounds and nothing is queued.
Before == pc \notin SSSPLabel => rounds = 0 /\ sq = NewQueue(0)

\* The table is between the true distances and the initial ones.
TableOK ==
  pc \in SSSPLabel =>
    /\ program \in {"rounds", "queue"}
    /\ pc \in {"round", "node", "edge"} => program = "rounds"
    /\ pc \in {"pop", "relax", "exitFull"} => program = "queue"
    /\ node_wt \in [Node -> Weight]
    /\ \A n \in Node : node_wt[n] <= InitDist(n) /\ Dist(n) <= node_wt[n]

\* The edge that is looked at is one of its node, which has been reached.
ScanOK ==
  pc \in {"edge", "relax"} =>
    /\ node \in Node /\ node_wt[node] # INF
    /\ edge \in row_start[node] .. row_start[node + 1]

\* a2: the edges that this round has passed, and what they say: none has a
\* distance left to lower, that of the last round or, if nothing has changed
\* in this round, its present one.
Passed(k) ==
  \/ Source(file, k) < node
  \/ pc = "edge" /\ Source(file, k) = node /\ k <= edge

RoundOK ==
  /\ pc \in {"round", "node", "edge"} =>
       /\ rounds \in 0 .. file.nodes
       /\ rounds + 1 <= file.nodes \/ file.nodes = 0
       /\ \A n \in Node : node_wt[n] <= HopDist(file)[rounds][n]
  /\ pc \in {"node", "edge"} =>
       /\ rounds + 1 < file.nodes
       /\ node \in 0 .. num_nodes
       /\ \A k \in FileEdges : Passed(k) =>
            /\ HopDist(file)[rounds][Source(file, k)] # INF =>
                 node_wt[Dest(file, k)] <= HopDist(file)[rounds][Source(file, k)] + Wt(file, k)
            /\ ~changed /\ node_wt[Source(file, k)] # INF =>
                 node_wt[Dest(file, k)] <= node_wt[Source(file, k)] + Wt(file, k)

\* a4: only nodes that are reached are queued, and an edge that can lower a
\* distance is one of a node that is queued, or is still to be looked at.
QueueOK ==
  pc \in {"pop", "relax"} =>
    /\ RingOK(sq)
    /\ \A n \in Queued(sq) : n \in Node /\ node_wt[n] # INF
    /\ \A k \in FileEdges :
         \/ node_wt[Source(file, k)] = INF
         \/ node_wt[Dest(file, k)] <= node_wt[Source(file, k)] + Wt(file, k)
         \/ Source(file, k) \in Queued(sq)
         \/ pc = "relax" /\ Source(file, k) = node /\ edge < k

\* What is written.
OutputLines == [k \in 1 .. num_nodes |-> OutputLine(k - 1, node_wt[k - 1])]
OutputOK ==
  /\ pc \in {"write", "exit write", "done"} => \A n \in Node : node_wt[n] = Dist(n)
  /\ pc = "done" =>
       /\ out = SubSeq(OutputLines, 1, Len(out))
       /\ lost = 0 => out = OutputLines

SerialInv == Before /\ TableOK /\ ScanOK /\ RoundOK /\ QueueOK /\ OutputOK
IInv == FileInv /\ SerialInv

-----------------------------------------------------------------------------
\* What load_file has left, with the edges counted as in the file.
Ready == pc \notin {"load", "edges", "exit"}

LEMMA GraphFacts ==
  ASSUME FileInv, Ready
  PROVE  /\ Usable(file) /\ num_nodes = file.nodes /\ num_edges = file.count
         /\ num_nodes \in Nat /\ num_edges \in Nat /\ Node = Places(file)
         /\ num_edges > 0 => num_nodes > 0
         /\ \A n \in Node : /\ row_start[n] \in Nat /\ row_start[n + 1] \in Nat
                            /\ row_start[n] <= row_start[n + 1]
                            /\ row_start[n + 1] <= num_edges
         /\ \A k \in FileEdges :
              /\ Source(file, k) \in Node /\ Dest(file, k) \in Node /\ Wt(file, k) \in Int
              /\ edge_dst[k - 1] = Dest(file, k) /\ edge_wt[k - 1] = Wt(file, k)
              /\ \A n \in Node : row_start[n] < k /\ k <= row_start[n + 1] <=> n = Source(file, k)
<1>1. Loaded /\ file \in Files /\ FileOK
  BY FileTypes DEF FileInv, Ready
<1>2. /\ file.status = "header" /\ num_nodes = file.nodes /\ num_edges = file.count
      /\ num_edges <= Len(file.edges) /\ num_nodes \in Nat /\ num_edges \in Nat
  BY <1>1 DEF Loaded, Shape, Entered, FileOK
<1>3. Usable(file) /\ Node = Places(file)
  BY <1>1, <1>2 DEF Usable, Node, Places
<1>4. GraphOfFile
  BY <1>1, LoadedIsGraph
<1>5. \A n \in Node : /\ row_start[n] \in Nat /\ row_start[n + 1] \in Nat
                      /\ row_start[n] <= row_start[n + 1]
                      /\ row_start[n + 1] <= num_edges
  BY <1>1, RowsAscend DEF Node
<1>6. ASSUME NEW k \in FileEdges
      PROVE  /\ edge_dst[k - 1] = Dest(file, k) /\ edge_wt[k - 1] = Wt(file, k)
             /\ \A n \in Node : row_start[n] < k /\ k <= row_start[n + 1] <=> n = Source(file, k)
  <2>1. k - 1 \in 0 .. num_edges - 1 /\ (k - 1) + 1 = k /\ k \in Int
    BY <1>2 DEF FileEdges
  <2>2. /\ edge_dst[k - 1] = file.edges[k].dst /\ edge_wt[k - 1] = file.edges[k].wt
        /\ \A n \in 0 .. num_nodes - 1 :
             k - 1 \in row_start[n] .. row_start[n + 1] - 1 <=> n = file.edges[k].src
    <3>1. /\ edge_dst[k - 1] = file.edges[(k - 1) + 1].dst
          /\ edge_wt[k - 1] = file.edges[(k - 1) + 1].wt
          /\ \A n \in 0 .. num_nodes - 1 :
               k - 1 \in row_start[n] .. row_start[n + 1] - 1 <=> n = file.edges[(k - 1) + 1].src
      BY <1>4, <2>1 DEF GraphOfFile
    <3>. QED
      BY <2>1, <3>1
  <2>3. ASSUME NEW n \in Node
        PROVE  row_start[n] < k /\ k <= row_start[n + 1] <=> n = Source(file, k)
    <3>1. k - 1 \in row_start[n] .. row_start[n + 1] - 1 <=> n = Source(file, k)
      BY <2>2 DEF Source, Node
    <3>2. row_start[n] \in Nat /\ row_start[n + 1] \in Nat
      BY <1>5
    <3>3. k - 1 \in row_start[n] .. row_start[n + 1] - 1 <=> row_start[n] < k /\ k <= row_start[n + 1]
      BY ONLY <2>1, <3>2
    <3>. QED
      BY <3>1, <3>3
  <2>. QED
    BY <2>2, <2>3 DEF Dest, Wt
<1>7. \A k \in FileEdges : Source(file, k) \in Node /\ Dest(file, k) \in Node /\ Wt(file, k) \in Int
  BY <1>3, UsableTypes DEF FileEdges
<1>8. num_edges > 0 => num_nodes > 0
  BY <1>2, <1>3, UsableTypes
<1>. QED
  BY <1>2, <1>3, <1>5, <1>6, <1>7, <1>8

LEMMA DistFacts ==
  ASSUME FileInv, Ready, NEW n \in Node
  PROVE  /\ Dist(n) \in Int /\ Dist(n) <= INF /\ Dist(n) <= InitDist(n)
         /\ \A k \in FileEdges : Dist(Source(file, k)) # INF =>
              Dist(Dest(file, k)) <= Dist(Source(file, k)) + Wt(file, k)
<1>1. Usable(file) /\ n \in Places(file) /\ file.nodes \in Nat
  BY GraphFacts
<1>2. file.nodes > 0
  BY <1>1 DEF Places
<1>3. /\ LastRow(file) \in [Places(file) -> Weight]
      /\ Closed(file, LastRow(file))
      /\ \A v \in Places(file) : LastRow(file)[v] <= InitDist(v)
  BY <1>1, <1>2, LastFacts
<1>4. \A v : Dist(v) = LastRow(file)[v]
  BY DEF Dist, TrueDist, LastRow
<1>5. LastRow(file)[n] \in Int /\ LastRow(file)[n] <= INF
  BY <1>1, <1>3 DEF Weight
<1>6. \A k \in FileEdges : LastRow(file)[Source(file, k)] # INF =>
        LastRow(file)[Dest(file, k)] <= LastRow(file)[Source(file, k)] + Wt(file, k)
  BY <1>3 DEF Closed, FileEdges
<1>. QED
  BY <1>1, <1>3, <1>4, <1>5, <1>6

\* A table no edge can lower is the right one.
LEMMA RightTable ==
  ASSUME FileInv, Ready, node_wt \in [Node -> Weight],
         \A n \in Node : node_wt[n] <= InitDist(n) /\ Dist(n) <= node_wt[n],
         \A k \in FileEdges : node_wt[Source(file, k)] # INF =>
           node_wt[Dest(file, k)] <= node_wt[Source(file, k)] + Wt(file, k)
  PROVE  \A n \in Node : node_wt[n] = Dist(n)
<1>1. Usable(file) /\ Node = Places(file)
  BY GraphFacts
<1>2. Closed(file, node_wt)
  BY DEF Closed, FileEdges
<1>3. \A v : Dist(v) = LastRow(file)[v]
  BY DEF Dist, TrueDist, LastRow
<1>4. \A v \in Places(file) : node_wt[v] <= InitDist(v) /\ LastRow(file)[v] <= node_wt[v]
  BY <1>1, <1>3
<1>5. \A v \in Places(file) : node_wt[v] = LastRow(file)[v]
  BY <1>1, <1>2, <1>4, ClosedIsLast
<1>. QED
  BY <1>1, <1>3, <1>5

\* A table below the last row is the right one too.
LEMMA LowTable ==
  ASSUME FileInv, Ready, node_wt \in [Node -> Weight],
         \A n \in Node : Dist(n) <= node_wt[n],
         \A n \in Node : node_wt[n] <= HopDist(file)[num_nodes - 1][n]
  PROVE  \A n \in Node : node_wt[n] = Dist(n)
<1>1. num_nodes = file.nodes
  BY GraphFacts
<1>2. \A v : Dist(v) = HopDist(file)[num_nodes - 1][v]
  BY <1>1 DEF Dist, TrueDist
<1>3. \A n \in Node : node_wt[n] \in Int /\ Dist(n) \in Int
  BY DistFacts DEF Weight
<1>. QED
  BY <1>2, <1>3

\* The edge that is looked at, and what it does to the table.
LEMMA EdgeFacts ==
  ASSUME FileInv, TableOK, ScanOK, pc \in {"edge", "relax"}, edge < row_start[node + 1]
  PROVE  /\ node \in Node /\ edge \in Int /\ edge + 1 \in FileEdges
         /\ Source(file, edge + 1) = node
         /\ Dest(file, edge + 1) = edge_dst[edge] /\ Wt(file, edge + 1) = edge_wt[edge]
         /\ edge_dst[edge] \in Node /\ edge_wt[edge] \in Int
         /\ node_wt[node] \in Int /\ node_wt[edge_dst[edge]] \in Int
         /\ edge + 1 <= row_start[node + 1]
         /\ Improves =>
              /\ Lowered \in [Node -> Weight]
              /\ \A n \in Node : /\ Lowered[n] <= node_wt[n] /\ Dist(n) <= Lowered[n]
                                 /\ n # edge_dst[edge] => Lowered[n] = node_wt[n]
              /\ Lowered[edge_dst[edge]] = node_wt[node] + edge_wt[edge]
              /\ Lowered[edge_dst[edge]] # INF
         /\ ~Improves => node_wt[edge_dst[edge]] <= node_wt[node] + edge_wt[edge]
<1>. DEFINE k == edge + 1
            to == edge_dst[edge]
<1>1. Ready /\ pc \in SSSPLabel
  BY DEF Ready, SSSPLabel
<1>2. /\ node \in Node /\ node_wt[node] # INF
      /\ edge \in row_start[node] .. row_start[node + 1]
  BY DEF ScanOK
<1>3. /\ row_start[node] \in Nat /\ row_start[node + 1] \in Nat
      /\ row_start[node + 1] <= num_edges
      /\ num_edges = file.count /\ num_edges \in Nat
  BY <1>1, <1>2, GraphFacts
<1>4. /\ edge \in Nat /\ k \in FileEdges /\ k - 1 = edge
      /\ row_start[node] < k /\ k <= row_start[node + 1]
  BY <1>2, <1>3 DEF FileEdges
<1>. HIDE DEF k
<1>5. /\ Source(file, k) = node /\ Dest(file, k) = to /\ Wt(file, k) = edge_wt[edge]
      /\ to \in Node /\ edge_wt[edge] \in Int
  <2>1. /\ Dest(file, k) \in Node /\ Wt(file, k) \in Int
        /\ edge_dst[k - 1] = Dest(file, k) /\ edge_wt[k - 1] = Wt(file, k)
        /\ node = Source(file, k)
    BY <1>1, <1>2, <1>4, GraphFacts
  <2>. QED
    BY <1>4, <2>1
<1>6. /\ node_wt \in [Node -> Weight]
      /\ \A n \in Node : Dist(n) <= node_wt[n]
  BY <1>1 DEF TableOK
<1>7. \A n \in Node : node_wt[n] \in Int /\ node_wt[n] <= INF
  BY <1>6 DEF Weight
<1>8. \A n \in Node : Dist(n) \in Int /\ Dist(n) <= INF
  BY <1>1, DistFacts
<1>9. INF \in Int
  BY INFAssumption
<1>. HIDE DEF to
<1>10. node_wt[node] \in Int /\ node_wt[node] < INF /\ node_wt[to] \in Int /\ node_wt[to] <= INF
  BY <1>2, <1>5, <1>7, <1>9
<1>11. Improves <=> node_wt[node] + edge_wt[edge] < node_wt[to]
  BY DEF Improves, to
<1>12. ASSUME Improves
       PROVE  /\ Lowered \in [Node -> Weight]
              /\ \A n \in Node : /\ Lowered[n] <= node_wt[n] /\ Dist(n) <= Lowered[n]
                                 /\ n # to => Lowered[n] = node_wt[n]
              /\ Lowered[to] = node_wt[node] + edge_wt[edge]
              /\ Lowered[to] # INF
  <2>. DEFINE w == node_wt[node] + edge_wt[edge]
  <2>1. w \in Int /\ w < node_wt[to] /\ w < INF
    BY <1>5, <1>9, <1>10, <1>11, <1>12
  <2>2. w \in Weight
    BY <1>9, <2>1 DEF Weight
  <2>3. Lowered = [node_wt EXCEPT ![to] = w]
    BY DEF Lowered, to
  <2>4. Dist(to) <= w
    <3>1. Dist(node) <= node_wt[node] /\ Dist(node) \in Int /\ Dist(to) \in Int
      BY <1>2, <1>5, <1>6, <1>8
    <3>2. Dist(node) # INF
      BY <1>9, <1>10, <3>1
    <3>3. Dist(to) <= Dist(node) + edge_wt[edge]
      BY <1>1, <1>2, <1>4, <1>5, <3>2, DistFacts
    <3>. QED
      BY <1>5, <1>10, <3>1, <3>3
  <2>. HIDE DEF w
  <2>5. Lowered \in [Node -> Weight] /\ Lowered[to] = w /\ \A n \in Node : n # to => Lowered[n] = node_wt[n]
    BY <1>5, <1>6, <2>2, <2>3
  <2>6. ASSUME NEW n \in Node
        PROVE  Lowered[n] <= node_wt[n] /\ Dist(n) <= Lowered[n]
    <3>1. CASE n = to
      <4>1. w <= node_wt[to]
        BY <1>10, <2>1
      <4>. QED
        BY <2>4, <2>5, <3>1, <4>1
    <3>2. CASE n # to
      <4>1. node_wt[n] <= node_wt[n]
        BY <1>7
      <4>. QED
        BY <1>6, <2>5, <3>2, <4>1
    <3>. QED
      BY <3>1, <3>2
  <2>7. w # INF
    BY <1>9, <2>1
  <2>8. Lowered[to] = node_wt[node] + edge_wt[edge]
    BY <2>5 DEF w
  <2>. QED
    BY <2>5, <2>6, <2>7, <2>8
<1>13. ~Improves => node_wt[to] <= node_wt[node] + edge_wt[edge]
  BY <1>5, <1>10, <1>11
<1>. QED
  BY <1>2, <1>4, <1>5, <1>10, <1>12, <1>13 DEF k, to

-----------------------------------------------------------------------------
(***************************************************************************)
(* The steps of the two programs.                                          *)
(***************************************************************************)

\* They leave the graph alone.
LEMMA GraphKept ==
  ASSUME FileInv, Ready, UNCHANGED <<file, graphVars>>, pc' \in SSSPLabel
  PROVE  /\ FileInv' /\ Node' = Node /\ FileEdges' = FileEdges
         /\ \A n : Dist(n)' = Dist(n)
         /\ pc' \notin {"load", "edges", "exit", "saveEdges", "saved"}
<1>1. Loaded'
  BY DEF FileInv, Ready, graphVars, Loaded, Shape, Entered, Rows, Edge
<1>2. pc' \notin {"load", "edges", "exit", "saveEdges", "saved"}
  BY DEF SSSPLabel
<1>3. FileInv'
  BY <1>1, <1>2 DEF FileInv, Label
<1>. QED
  BY <1>2, <1>3 DEF graphVars, Node, FileEdges, Dist, TrueDist

LEMMA SSSPInitStep ==
  ASSUME IInv, SSSPInit
  PROVE  IInv'
<1>0. FileInv /\ Before
  BY DEF IInv, SerialInv
<1>1. /\ pc = "loaded" /\ Ready /\ pc \notin SSSPLabel
      /\ program' = program /\ program \in {"rounds", "queue"}
      /\ pc' = (IF program = "queue" THEN "pop" ELSE "round") /\ pc' \in SSSPLabel
      /\ UNCHANGED <<file, graphVars, rounds>>
      /\ node_wt' = [n \in Node |-> InitDist(n)]
  BY DEF SSSPInit, Ready, SSSPLabel
<1>2. /\ FileInv' /\ Node' = Node /\ FileEdges' = FileEdges
      /\ \A n : Dist(n)' = Dist(n)
  BY <1>0, <1>1, GraphKept
<1>3. /\ Usable(file) /\ num_nodes = file.nodes /\ num_edges = file.count
      /\ num_nodes \in Nat /\ num_edges \in Nat /\ Node = Places(file)
      /\ num_edges > 0 => num_nodes > 0
      /\ \A k \in FileEdges : Source(file, k) \in Node
  BY <1>0, <1>1, GraphFacts
<1>4. rounds = 0 /\ sq = NewQueue(0)
  BY <1>0, <1>1 DEF Before
<1>5. \A n \in Node : InitDist(n) \in Int /\ InitDist(n) <= INF
  BY INFAssumption DEF InitDist
<1>6. TableOK'
  <2>1. \A n \in Node : node_wt'[n] = InitDist(n) /\ InitDist(n) <= InitDist(n) /\ Dist(n) <= InitDist(n)
    BY <1>0, <1>1, <1>5, DistFacts
  <2>2. node_wt' \in [Node -> Weight]
    BY <1>1, <1>5 DEF Weight
  <2>. QED
    BY <1>1, <1>2, <2>1, <2>2 DEF TableOK
<1>7. RoundOK'
  <2>1. 0 \in 0 .. file.nodes /\ (0 + 1 <= file.nodes \/ file.nodes = 0)
    BY <1>3
  <2>2. ASSUME NEW n \in Node
        PROVE  node_wt'[n] <= HopDist(file)[0][n]
    <3>1. HopDist(file)[0][n] = InitDist(n) /\ node_wt'[n] = InitDist(n) /\ InitDist(n) <= InitDist(n)
      BY <1>1, <1>3, <1>5, HopRows
    <3>. QED
      BY <3>1
  <2>. QED
    BY <1>1, <1>2, <1>4, <2>1, <2>2 DEF RoundOK
<1>8. QueueOK'
  <2>. SUFFICES ASSUME pc' = "pop"
                PROVE  QueueOK'
    BY <1>1 DEF QueueOK
  <2>. DEFINE empty == NewQueue(num_edges * 2)
  <2>1. num_edges * 2 \in Nat /\ (num_edges > 0 => num_edges * 2 > 0) /\ 0 \in Nat
    BY <1>3
  <2>2. RingOK(empty) /\ Queued(empty) = {} /\ (num_edges > 0 => ~IsFull(empty))
    BY <2>1, NewIs, EmptyIs
  <2>3. RingOK(sq) /\ Queued(sq) = {}
    BY <1>4, <2>1, NewIs, EmptyIs
  <2>4. sq' = IF ~IsFull(empty) THEN Pushed(empty, src) ELSE sq
    BY <1>1 DEF SSSPInit
  <2>. HIDE DEF empty
  <2>5. CASE IsFull(empty)
    <3>1. RingOK(sq') /\ Queued(sq') = {}
      BY <2>3, <2>4, <2>5
    <3>2. FileEdges = {}
      BY <1>3, <2>2, <2>5 DEF FileEdges
    <3>. QED
      BY <1>1, <1>2, <3>1, <3>2 DEF QueueOK
  <2>6. CASE ~IsFull(empty)
    <3>1. src \in Nat /\ src = 0
      BY DEF src
    <3>2. RingOK(sq') /\ Queued(sq') = {src}
      BY <2>2, <2>4, <2>6, <3>1, PushedIs
    <3>3. num_edges > 0
      <4>1. ASSUME num_edges = 0
            PROVE  FALSE
        <5>1. num_edges * 2 = 0
          BY <4>1
        <5>2. empty = NewQueue(0)
          BY <5>1 DEF empty
        <5>3. IsFull(NewQueue(0))
          <6>1. (0 + 1) % (0 + 1) = 0
            OBVIOUS
          <6>. QED
            BY <6>1 DEF IsFull, NewQueue
        <5>. QED
          BY <2>6, <5>2, <5>3
      <4>. QED
        BY <1>3, <4>1
    <3>4. src \in Node /\ node_wt'[src] = 0 /\ INF # 0
      <4>1. src \in Node
        BY <1>3, <3>1, <3>3 DEF Node
      <4>. QED
        BY <1>1, <4>1, INFAssumption DEF InitDist
    <3>5. \A n \in Queued(sq') : n \in Node /\ node_wt'[n] # INF
      BY <3>2, <3>4
    <3>6. ASSUME NEW k \in FileEdges
          PROVE  node_wt'[Source(file, k)] = INF \/ Source(file, k) \in Queued(sq')
      <4>1. Source(file, k) # src => node_wt'[Source(file, k)] = INF
        BY <1>1, <1>3 DEF InitDist
      <4>. QED
        BY <3>2, <4>1
    <3>. QED
      BY <1>1, <1>2, <3>2, <3>5, <3>6 DEF QueueOK
  <2>. QED
    BY <2>5, <2>6
<1>9. Before' /\ ScanOK' /\ OutputOK'
  BY <1>1 DEF Before, ScanOK, OutputOK
<1>. QED
  BY <1>2, <1>6, <1>7, <1>8, <1>9 DEF IInv, SerialInv

\* a2: a round begins, or the rounds are over: then row num_nodes - 1 is reached.
LEMMA RoundStep ==
  ASSUME IInv, Round
  PROVE  IInv'
<1>0. FileInv /\ Before /\ TableOK /\ RoundOK
  BY DEF IInv, SerialInv
<1>1. /\ pc = "round" /\ Ready /\ pc \in SSSPLabel
      /\ \/ rounds < num_nodes - 1 /\ pc' = "node"
         \/ rounds >= num_nodes - 1 /\ pc' = "write"
      /\ pc' \in SSSPLabel
      /\ node' = 0 /\ changed' = FALSE
      /\ UNCHANGED <<file, graphVars, program, node_wt, rounds>>
  BY DEF Round, Ready, SSSPLabel, Graph
<1>2. /\ FileInv' /\ Node' = Node /\ FileEdges' = FileEdges
      /\ \A n : Dist(n)' = Dist(n)
  BY <1>0, <1>1, GraphKept
<1>3. /\ num_nodes = file.nodes /\ num_nodes \in Nat /\ Node = 0 .. num_nodes - 1
      /\ \A k \in FileEdges : Source(file, k) \in Node
  BY <1>0, <1>1, GraphFacts DEF Node
<1>4. /\ node_wt \in [Node -> Weight] /\ program = "rounds"
      /\ \A n \in Node : node_wt[n] <= InitDist(n) /\ Dist(n) <= node_wt[n]
  BY <1>0, <1>1 DEF TableOK
<1>5. TableOK'
  BY <1>1, <1>2, <1>4 DEF TableOK
<1>6. /\ rounds \in 0 .. file.nodes
      /\ rounds + 1 <= file.nodes \/ file.nodes = 0
      /\ \A n \in Node : node_wt[n] <= HopDist(file)[rounds][n]
  BY <1>0, <1>1 DEF RoundOK
<1>7. RoundOK'
  <2>1. CASE pc' = "node"
    <3>1. rounds + 1 < file.nodes /\ 0 \in 0 .. num_nodes
      BY <1>1, <1>3, <1>6, <2>1
    <3>2. ASSUME NEW k \in FileEdges
          PROVE  ~(Source(file, k) < 0)
      BY <1>3
    <3>3. \A k \in FileEdges : ~Passed(k)'
      BY <1>1, <2>1, <3>2 DEF Passed
    <3>4. num_nodes' = num_nodes
      BY <1>1 DEF graphVars
    <3>. QED
      BY <1>1, <1>2, <1>6, <2>1, <3>1, <3>3, <3>4 DEF RoundOK
  <2>2. CASE pc' = "write"
    BY <2>2 DEF RoundOK
  <2>. QED
    BY <1>1, <2>1, <2>2
<1>8. OutputOK'
  <2>1. CASE pc' = "write"
    <3>1. rounds >= num_nodes - 1
      BY <1>1, <2>1
    <3>2. ASSUME NEW n \in Node
          PROVE  node_wt[n] <= HopDist(file)[num_nodes - 1][n]
      <4>1. num_nodes > 0
        BY <1>3
      <4>2. rounds = num_nodes - 1
        BY <1>3, <1>6, <3>1, <4>1
      <4>. QED
        BY <1>6, <4>2
    <3>3. \A n \in Node : node_wt[n] = Dist(n)
      BY <1>0, <1>1, <1>4, <3>2, LowTable
    <3>. QED
      BY <1>1, <1>2, <2>1, <3>3 DEF OutputOK
  <2>2. CASE pc' = "node"
    BY <2>2 DEF OutputOK
  <2>. QED
    BY <1>1, <2>1, <2>2
<1>9. Before' /\ ScanOK' /\ QueueOK'
  BY <1>1 DEF Before, ScanOK, QueueOK
<1>. QED
  BY <1>2, <1>5, <1>7, <1>8, <1>9 DEF IInv, SerialInv

\* a2: the next node; behind the last one every edge has been passed.
LEMMA VisitStep ==
  ASSUME IInv, VisitNode
  PROVE  IInv'
<1>0. FileInv /\ Before /\ TableOK /\ RoundOK
  BY DEF IInv, SerialInv
<1>1. /\ pc = "node" /\ Ready /\ pc \in SSSPLabel
      /\ pc' \in {"node", "edge", "round", "write"} /\ pc' \in SSSPLabel
      /\ UNCHANGED <<file, graphVars, program, node_wt, changed>>
  BY DEF VisitNode, Ready, SSSPLabel, Graph
<1>2. /\ FileInv' /\ Node' = Node /\ FileEdges' = FileEdges
      /\ \A n : Dist(n)' = Dist(n)
  BY <1>0, <1>1, GraphKept
<1>3. /\ num_nodes = file.nodes /\ num_nodes \in Nat /\ Node = 0 .. num_nodes - 1
      /\ Usable(file) /\ Node = Places(file) /\ num_nodes' = num_nodes /\ row_start' = row_start
      /\ FileEdges = 1 .. file.count
      /\ \A n \in Node : /\ row_start[n] \in Nat /\ row_start[n + 1] \in Nat
                         /\ row_start[n] <= row_start[n + 1]
      /\ \A k \in FileEdges :
           /\ Source(file, k) \in Node /\ Dest(file, k) \in Node /\ Wt(file, k) \in Int
           /\ \A n \in Node : row_start[n] < k /\ k <= row_start[n + 1] <=> n = Source(file, k)
  BY <1>0, <1>1, GraphFacts DEF Node, graphVars, FileEdges
<1>4. /\ node_wt \in [Node -> Weight] /\ program = "rounds"
      /\ \A n \in Node : node_wt[n] <= InitDist(n) /\ Dist(n) <= node_wt[n]
  BY <1>0, <1>1 DEF TableOK
<1>5. TableOK'
  BY <1>1, <1>2, <1>4 DEF TableOK
<1>6. /\ rounds \in 0 .. file.nodes /\ rounds + 1 < file.nodes /\ node \in 0 .. num_nodes
      /\ \A n \in Node : node_wt[n] <= HopDist(file)[rounds][n]
      /\ \A k \in FileEdges : Source(file, k) < node =>
            /\ HopDist(file)[rounds][Source(file, k)] # INF =>
                 node_wt[Dest(file, k)] <= HopDist(file)[rounds][Source(file, k)] + Wt(file, k)
            /\ ~changed /\ node_wt[Source(file, k)] # INF =>
                 node_wt[Dest(file, k)] <= node_wt[Source(file, k)] + Wt(file, k)
  BY <1>0, <1>1 DEF RoundOK, Passed
<1>7. \A n \in Node : node_wt[n] \in Int /\ node_wt[n] <= INF
  BY <1>4 DEF Weight
<1>8. rounds \in 0 .. file.nodes /\ rounds + 1 \in 0 .. file.nodes
  BY <1>3, <1>6
<1>9. \A n \in Node : HopDist(file)[rounds][n] \in Int /\ HopDist(file)[rounds][n] <= INF
  BY <1>3, <1>8, HopFacts
<1>10. Before' /\ QueueOK'
  BY <1>1 DEF Before, QueueOK
<1>11. CASE node < num_nodes /\ node_wt[node] = INF /\ node' = node + 1 /\ UNCHANGED <<pc, edge, rounds>>
  <2>1. node \in Node
    BY <1>3, <1>6, <1>11
  <2>2. HopDist(file)[rounds][node] = INF
    BY <1>6, <1>9, <1>11, <2>1, INFAssumption
  <2>3. ASSUME NEW k \in FileEdges, Passed(k)'
        PROVE  /\ HopDist(file)[rounds][Source(file, k)] # INF =>
                    node_wt[Dest(file, k)] <= HopDist(file)[rounds][Source(file, k)] + Wt(file, k)
               /\ ~changed /\ node_wt[Source(file, k)] # INF =>
                    node_wt[Dest(file, k)] <= node_wt[Source(file, k)] + Wt(file, k)
    <3>1. Source(file, k) < node + 1
      BY <1>1, <1>11, <2>3 DEF Passed
    <3>2. Source(file, k) \in Int /\ node \in Int
      BY <1>3, <1>6
    <3>3. Source(file, k) = node \/ Source(file, k) < node
      BY <3>1, <3>2
    <3>. QED
      BY <1>6, <1>11, <2>2, <3>3
  <2>4. node + 1 \in 0 .. num_nodes
    BY <1>3, <1>6, <1>11
  <2>5. RoundOK'
    BY <1>1, <1>2, <1>3, <1>6, <1>11, <2>3, <2>4 DEF RoundOK
  <2>6. ScanOK' /\ OutputOK'
    BY <1>1, <1>11 DEF ScanOK, OutputOK
  <2>. QED
    BY <1>2, <1>5, <1>10, <2>5, <2>6 DEF IInv, SerialInv
<1>12. CASE /\ node < num_nodes /\ node_wt[node] # INF
            /\ edge' = row_start[node] /\ pc' = "edge" /\ UNCHANGED <<node, rounds>>
  <2>1. node \in Node
    BY <1>3, <1>6, <1>12
  <2>2. ASSUME NEW k \in FileEdges, Passed(k)'
        PROVE  Source(file, k) < node
    <3>1. Source(file, k) < node \/ (Source(file, k) = node /\ k <= row_start[node])
      BY <1>1, <1>12, <2>2 DEF Passed
    <3>2. Source(file, k) = node => row_start[node] < k
      BY <1>3, <2>1
    <3>3. k \in Int /\ row_start[node] \in Int
      BY <1>3, <2>1
    <3>. QED
      BY <3>1, <3>2, <3>3
  <2>3. RoundOK'
    BY <1>1, <1>2, <1>3, <1>6, <1>12, <2>2 DEF RoundOK
  <2>4. ScanOK'
    <3>1. row_start[node] \in row_start[node] .. row_start[node + 1]
      BY <1>3, <2>1
    <3>. QED
      BY <1>1, <1>2, <1>3, <1>12, <2>1, <3>1 DEF ScanOK
  <2>5. OutputOK'
    BY <1>12 DEF OutputOK
  <2>. QED
    BY <1>2, <1>5, <1>10, <2>3, <2>4, <2>5 DEF IInv, SerialInv
<1>13. ASSUME node >= num_nodes
       PROVE  \A k \in FileEdges : Source(file, k) < node
  BY <1>3, <1>6, <1>13
<1>14. CASE /\ node >= num_nodes /\ changed /\ rounds' = rounds + 1 /\ pc' = "round"
  <2>1. \A k \in 1 .. file.count : HopDist(file)[rounds][Source(file, k)] # INF =>
           node_wt[Dest(file, k)] <= HopDist(file)[rounds][Source(file, k)] + Wt(file, k)
    BY <1>3, <1>6, <1>13, <1>14
  <2>2. node_wt \in [Places(file) -> Int]
    BY <1>3, <1>4, <1>7
  <2>3. \A n \in Node : node_wt[n] <= HopDist(file)[rounds + 1][n]
    BY <1>3, <1>6, <1>8, <2>1, <2>2, HopReached
  <2>4. rounds + 1 \in 0 .. file.nodes /\ (rounds + 1) + 1 <= file.nodes
    BY <1>3, <1>6
  <2>5. RoundOK'
    BY <1>1, <1>2, <1>14, <2>3, <2>4 DEF RoundOK
  <2>6. ScanOK' /\ OutputOK'
    BY <1>14 DEF ScanOK, OutputOK
  <2>. QED
    BY <1>2, <1>5, <1>10, <2>5, <2>6 DEF IInv, SerialInv
<1>15. CASE node >= num_nodes /\ ~changed /\ pc' = "write" /\ UNCHANGED rounds
  <2>1. \A k \in FileEdges : node_wt[Source(file, k)] # INF =>
           node_wt[Dest(file, k)] <= node_wt[Source(file, k)] + Wt(file, k)
    BY <1>6, <1>13, <1>15
  <2>2. \A n \in Node : node_wt[n] = Dist(n)
    BY <1>0, <1>1, <1>4, <2>1, RightTable
  <2>3. OutputOK'
    BY <1>1, <1>2, <1>15, <2>2 DEF OutputOK
  <2>4. RoundOK' /\ ScanOK'
    BY <1>15 DEF RoundOK, ScanOK
  <2>. QED
    BY <1>2, <1>5, <1>10, <2>3, <2>4 DEF IInv, SerialInv
<1>. QED
  BY <1>11, <1>12, <1>14, <1>15 DEF VisitNode

\* a2: an edge of the node has been passed, or all of them.
LEMMA RelaxEdgeStep ==
  ASSUME IInv, RelaxEdge
  PROVE  IInv'
<1>0. FileInv /\ Before /\ TableOK /\ ScanOK /\ RoundOK
  BY DEF IInv, SerialInv
<1>1. /\ pc = "edge" /\ Ready /\ pc \in SSSPLabel
      /\ pc' \in {"node", "edge"} /\ pc' \in SSSPLabel
      /\ UNCHANGED <<file, graphVars, program, rounds>>
  BY DEF RelaxEdge, Ready, SSSPLabel, Graph
<1>2. /\ FileInv' /\ Node' = Node /\ FileEdges' = FileEdges
      /\ \A n : Dist(n)' = Dist(n)
  BY <1>0, <1>1, GraphKept
<1>3. /\ num_nodes = file.nodes /\ num_nodes \in Nat /\ Node = 0 .. num_nodes - 1
      /\ Usable(file) /\ Node = Places(file) /\ num_nodes' = num_nodes /\ row_start' = row_start
      /\ \A n \in Node : /\ row_start[n] \in Nat /\ row_start[n + 1] \in Nat
                         /\ row_start[n] <= row_start[n + 1]
      /\ \A k \in FileEdges :
           /\ k \in Int
           /\ Source(file, k) \in Node /\ Dest(file, k) \in Node /\ Wt(file, k) \in Int
           /\ \A n \in Node : row_start[n] < k /\ k <= row_start[n + 1] <=> n = Source(file, k)
  <2>1. \A k \in FileEdges : k \in Int
    BY DEF FileEdges
  <2>. QED
    BY <1>0, <1>1, <2>1, GraphFacts DEF Node, graphVars
<1>4. /\ node_wt \in [Node -> Weight] /\ program = "rounds"
      /\ \A n \in Node : node_wt[n] <= InitDist(n) /\ Dist(n) <= node_wt[n]
  BY <1>0, <1>1 DEF TableOK
<1>5. /\ rounds \in 0 .. file.nodes /\ rounds + 1 < file.nodes
      /\ \A n \in Node : node_wt[n] <= HopDist(file)[rounds][n]
      /\ \A k \in FileEdges : Source(file, k) < node \/ (Source(file, k) = node /\ k <= edge) =>
            /\ HopDist(file)[rounds][Source(file, k)] # INF =>
                 node_wt[Dest(file, k)] <= HopDist(file)[rounds][Source(file, k)] + Wt(file, k)
            /\ ~changed /\ node_wt[Source(file, k)] # INF =>
                 node_wt[Dest(file, k)] <= node_wt[Source(file, k)] + Wt(file, k)
  BY <1>0, <1>1 DEF RoundOK, Passed
<1>6. /\ node \in Node /\ node_wt[node] # INF
      /\ edge \in row_start[node] .. row_start[node + 1]
  BY <1>0, <1>1 DEF ScanOK
<1>7. \A n \in Node : node_wt[n] \in Int /\ node_wt[n] <= INF
  BY <1>4 DEF Weight
<1>8. INF \in Int /\ \A n \in Node : InitDist(n) \in Int
  BY INFAssumption DEF InitDist
<1>9. rounds \in 0 .. file.nodes /\ rounds + 1 \in 0 .. file.nodes
  BY <1>3, <1>5
<1>10. \A n \in Node : HopDist(file)[rounds][n] \in Int
  BY <1>3, <1>9, HopFacts
<1>11. Before' /\ QueueOK' /\ OutputOK'
  BY <1>1 DEF Before, QueueOK, OutputOK
<1>12. CASE /\ edge < row_start[node + 1] /\ edge' = edge + 1 /\ UNCHANGED <<pc, node>>
            /\ IF Improves THEN node_wt' = Lowered /\ changed' = TRUE
                           ELSE UNCHANGED <<node_wt, changed>>
  <2>. DEFINE new == edge + 1
  <2>1. /\ edge \in Int /\ new \in FileEdges
        /\ Source(file, new) = node /\ Dest(file, new) \in Node /\ Wt(file, new) \in Int
        /\ edge_dst[edge] = Dest(file, new) /\ edge_wt[edge] = Wt(file, new)
        /\ new <= row_start[node + 1]
    BY <1>0, <1>1, <1>12, EdgeFacts
  <2>2. /\ node_wt' \in [Node -> Weight]
        /\ \A n \in Node : node_wt'[n] <= node_wt[n] /\ Dist(n) <= node_wt'[n]
        /\ node_wt'[Dest(file, new)] <= node_wt[node] + Wt(file, new)
        /\ ~changed' => ~changed /\ node_wt' = node_wt
    <3>1. CASE Improves
      <4>1. /\ node_wt' = Lowered /\ changed' = TRUE
            /\ Lowered \in [Node -> Weight]
            /\ \A n \in Node : Lowered[n] <= node_wt[n] /\ Dist(n) <= Lowered[n]
            /\ Lowered[edge_dst[edge]] = node_wt[node] + edge_wt[edge]
        BY <1>0, <1>1, <1>12, <3>1, EdgeFacts
      <4>2. node_wt[node] + Wt(file, new) <= node_wt[node] + Wt(file, new)
        BY <1>6, <1>7, <2>1
      <4>. QED
        BY <2>1, <4>1, <4>2
    <3>2. CASE ~Improves
      <4>1. node_wt' = node_wt /\ changed' = changed
        BY <1>12, <3>2
      <4>2. node_wt[edge_dst[edge]] <= node_wt[node] + edge_wt[edge]
        BY <1>0, <1>1, <1>12, <3>2, EdgeFacts
      <4>3. \A n \in Node : node_wt[n] <= node_wt[n]
        BY <1>7
      <4>. QED
        BY <1>4, <2>1, <4>1, <4>2, <4>3
    <3>. QED
      BY <3>1, <3>2
  <2>. HIDE DEF new
  <2>3. \A n \in Node : node_wt'[n] \in Int
    BY <2>2 DEF Weight
  <2>4. TableOK'
    <3>1. \A n \in Node : node_wt'[n] <= InitDist(n)
      BY <1>4, <1>7, <1>8, <2>2, <2>3
    <3>. QED
      BY <1>1, <1>2, <1>4, <1>12, <2>2, <3>1 DEF TableOK
  <2>5. ScanOK'
    <3>1. node_wt'[node] # INF
      BY <1>6, <1>7, <1>8, <2>2, <2>3
    <3>2. edge + 1 \in row_start[node] .. row_start[node + 1]
      BY <1>3, <1>6, <1>12
    <3>. QED
      BY <1>1, <1>2, <1>3, <1>6, <1>12, <3>1, <3>2 DEF ScanOK
  <2>6. \A n \in Node : node_wt'[n] <= HopDist(file)[rounds][n]
    BY <1>5, <1>7, <1>10, <2>2, <2>3
  <2>7. ASSUME NEW k \in FileEdges, Passed(k)'
        PROVE  /\ HopDist(file)[rounds][Source(file, k)] # INF =>
                    node_wt'[Dest(file, k)] <= HopDist(file)[rounds][Source(file, k)] + Wt(file, k)
               /\ ~changed' /\ node_wt'[Source(file, k)] # INF =>
                    node_wt'[Dest(file, k)] <= node_wt'[Source(file, k)] + Wt(file, k)
    <3>1. Source(file, k) < node \/ (Source(file, k) = node /\ k <= edge + 1)
      BY <1>1, <1>12, <2>7 DEF Passed
    <3>2. /\ Source(file, k) \in Node /\ Dest(file, k) \in Node /\ Wt(file, k) \in Int /\ k \in Int
      BY <1>3
    <3>3. CASE Source(file, k) < node \/ (Source(file, k) = node /\ k <= edge)
      <4>1. HopDist(file)[rounds][Source(file, k)] # INF =>
              node_wt'[Dest(file, k)] <= HopDist(file)[rounds][Source(file, k)] + Wt(file, k)
        <5>1. HopDist(file)[rounds][Source(file, k)] # INF =>
                node_wt[Dest(file, k)] <= HopDist(file)[rounds][Source(file, k)] + Wt(file, k)
          BY <1>5, <3>3
        <5>2. /\ HopDist(file)[rounds][Source(file, k)] \in Int /\ Wt(file, k) \in Int
              /\ node_wt[Dest(file, k)] \in Int /\ node_wt'[Dest(file, k)] \in Int
              /\ node_wt'[Dest(file, k)] <= node_wt[Dest(file, k)]
          BY <1>7, <1>10, <2>2, <2>3, <3>2
        <5>. QED
          BY ONLY <5>1, <5>2
      <4>2. ~changed' /\ node_wt'[Source(file, k)] # INF =>
              node_wt'[Dest(file, k)] <= node_wt'[Source(file, k)] + Wt(file, k)
        BY <1>5, <2>2, <3>3
      <4>. QED
        BY <4>1, <4>2
    <3>4. CASE k = new
      <4>1. node_wt'[Dest(file, k)] <= node_wt[node] + Wt(file, k) /\ Source(file, k) = node
        BY <2>1, <2>2, <3>4
      <4>2. /\ node_wt[node] \in Int /\ node_wt[node] <= HopDist(file)[rounds][node]
            /\ HopDist(file)[rounds][node] \in Int /\ node_wt'[Dest(file, k)] \in Int
        BY <1>5, <1>6, <1>7, <1>10, <2>3, <3>2
      <4>3. node_wt'[Dest(file, k)] <= HopDist(file)[rounds][node] + Wt(file, k)
        BY ONLY <3>2, <4>1, <4>2
      <4>4. ~changed' => node_wt'[Dest(file, k)] <= node_wt'[node] + Wt(file, k)
        BY <2>2, <4>1
      <4>. QED
        BY <4>1, <4>3, <4>4
    <3>5. k <= edge \/ k = new \/ ~(k <= edge + 1)
      BY <2>1, <3>2 DEF new
    <3>. QED
      BY <3>1, <3>3, <3>4, <3>5
  <2>8. node \in 0 .. num_nodes
    BY <1>3, <1>6
  <2>9. RoundOK'
    BY <1>1, <1>2, <1>3, <1>5, <1>12, <2>6, <2>7, <2>8 DEF RoundOK
  <2>. QED
    BY <1>2, <1>11, <2>4, <2>5, <2>9 DEF IInv, SerialInv
<1>13. CASE /\ edge >= row_start[node + 1] /\ node' = node + 1 /\ pc' = "node"
            /\ UNCHANGED <<node_wt, edge, changed>>
  <2>1. TableOK'
    BY <1>1, <1>2, <1>4, <1>13 DEF TableOK
  <2>2. ScanOK'
    BY <1>13 DEF ScanOK
  <2>3. ASSUME NEW k \in FileEdges, Passed(k)'
        PROVE  Source(file, k) < node \/ (Source(file, k) = node /\ k <= edge)
    <3>1. Source(file, k) < node + 1
      BY <1>13, <2>3, <1>1 DEF Passed
    <3>2. Source(file, k) \in Int /\ node \in Int /\ k \in Int
      BY <1>3, <1>6
    <3>3. Source(file, k) = node => k <= row_start[node + 1]
      BY <1>3, <1>6
    <3>4. row_start[node + 1] \in Int /\ edge \in Int /\ row_start[node + 1] <= edge
      BY <1>3, <1>6, <1>13
    <3>5. Source(file, k) < node \/ Source(file, k) = node
      BY ONLY <3>1, <3>2
    <3>. QED
      BY <3>2, <3>3, <3>4, <3>5
  <2>4. node + 1 \in 0 .. num_nodes
    BY <1>3, <1>6
  <2>5. RoundOK'
    BY <1>1, <1>2, <1>3, <1>5, <1>13, <2>3, <2>4 DEF RoundOK
  <2>. QED
    BY <1>2, <1>11, <2>1, <2>2, <2>5 DEF IInv, SerialInv
<1>. QED
  BY <1>12, <1>13 DEF RelaxEdge

\* a4: the next node, whose edges are all still to be looked at; when the
\* queue is empty no edge can lower a distance.
LEMMA PopStep ==
  ASSUME IInv, Pop
  PROVE  IInv'
<1>0. FileInv /\ Before /\ TableOK /\ QueueOK
  BY DEF IInv, SerialInv
<1>1. /\ pc = "pop" /\ Ready /\ pc \in SSSPLabel
      /\ pc' \in {"relax", "write"} /\ pc' \in SSSPLabel
      /\ UNCHANGED <<file, graphVars, program, node_wt>>
  BY DEF Pop, Ready, SSSPLabel, Graph
<1>2. /\ FileInv' /\ Node' = Node /\ FileEdges' = FileEdges
      /\ \A n : Dist(n)' = Dist(n)
  BY <1>0, <1>1, GraphKept
<1>3. /\ row_start' = row_start
      /\ \A n \in Node : /\ row_start[n] \in Nat /\ row_start[n + 1] \in Nat
                         /\ row_start[n] <= row_start[n + 1]
      /\ \A k \in FileEdges : \A n \in Node :
           row_start[n] < k /\ k <= row_start[n + 1] <=> n = Source(file, k)
  BY <1>0, <1>1, GraphFacts DEF graphVars
<1>4. /\ node_wt \in [Node -> Weight] /\ program = "queue"
      /\ \A n \in Node : node_wt[n] <= InitDist(n) /\ Dist(n) <= node_wt[n]
  BY <1>0, <1>1 DEF TableOK
<1>5. /\ RingOK(sq)
      /\ \A n \in Queued(sq) : n \in Node /\ node_wt[n] # INF
      /\ \A k \in FileEdges :
           \/ node_wt[Source(file, k)] = INF
           \/ node_wt[Dest(file, k)] <= node_wt[Source(file, k)] + Wt(file, k)
           \/ Source(file, k) \in Queued(sq)
  BY <1>0, <1>1 DEF QueueOK
<1>6. TableOK'
  BY <1>1, <1>2, <1>4 DEF TableOK
<1>7. Before' /\ RoundOK'
  BY <1>1 DEF Before, RoundOK
<1>8. CASE IsEmpty(sq) /\ pc' = "write"
  <2>1. Queued(sq) = {}
    BY <1>5, <1>8, EmptyIs
  <2>2. \A k \in FileEdges : node_wt[Source(file, k)] # INF =>
           node_wt[Dest(file, k)] <= node_wt[Source(file, k)] + Wt(file, k)
    BY <1>5, <2>1
  <2>3. \A n \in Node : node_wt[n] = Dist(n)
    BY <1>0, <1>1, <1>4, <2>2, RightTable
  <2>4. OutputOK'
    BY <1>1, <1>2, <1>8, <2>3 DEF OutputOK
  <2>5. ScanOK' /\ QueueOK'
    BY <1>8 DEF ScanOK, QueueOK
  <2>. QED
    BY <1>2, <1>6, <1>7, <2>4, <2>5 DEF IInv, SerialInv
<1>9. CASE /\ ~IsEmpty(sq) /\ node' = FirstItem(sq) /\ edge' = row_start[FirstItem(sq)]
           /\ sq' = Popped(sq) /\ pc' = "relax"
  <2>1. RingOK(sq') /\ Queued(sq) = Queued(sq') \cup {node'}
    BY <1>5, <1>9, PoppedIs
  <2>2. node' \in Node /\ node_wt[node'] # INF
    BY <1>5, <2>1
  <2>3. edge' \in row_start[node'] .. row_start[node' + 1]
    BY <1>3, <1>9, <2>2
  <2>4. ScanOK'
    BY <1>1, <1>2, <1>3, <2>2, <2>3 DEF ScanOK
  <2>5. ASSUME NEW k \in FileEdges
        PROVE  \/ node_wt[Source(file, k)] = INF
               \/ node_wt[Dest(file, k)] <= node_wt[Source(file, k)] + Wt(file, k)
               \/ Source(file, k) \in Queued(sq')
               \/ Source(file, k) = node' /\ edge' < k
    <3>1. Source(file, k) = node' => edge' < k
      BY <1>3, <1>9, <2>2
    <3>. QED
      BY <1>5, <2>1, <3>1
  <2>6. \A n \in Queued(sq') : n \in Node /\ node_wt[n] # INF
    BY <1>5, <2>1
  <2>7. QueueOK'
    BY <1>1, <1>2, <1>9, <2>1, <2>5, <2>6 DEF QueueOK
  <2>8. OutputOK'
    BY <1>9 DEF OutputOK
  <2>. QED
    BY <1>2, <1>6, <1>7, <2>4, <2>7, <2>8 DEF IInv, SerialInv
<1>. QED
  BY <1>8, <1>9 DEF Pop

\* a4: an edge that is looked at has nothing left to lower, and whoever it
\* lowers is queued.
LEMMA RelaxAndPushStep ==
  ASSUME IInv, RelaxAndPush
  PROVE  IInv'
<1>0. FileInv /\ Before /\ TableOK /\ ScanOK /\ QueueOK
  BY DEF IInv, SerialInv
<1>1. /\ pc = "relax" /\ Ready /\ pc \in SSSPLabel
      /\ pc' \in {"relax", "exitFull", "pop"} /\ pc' \in SSSPLabel
      /\ UNCHANGED <<file, graphVars, program, node>>
  BY DEF RelaxAndPush, Ready, SSSPLabel, Graph
<1>2. /\ FileInv' /\ Node' = Node /\ FileEdges' = FileEdges
      /\ \A n : Dist(n)' = Dist(n)
  BY <1>0, <1>1, GraphKept
<1>3. /\ row_start' = row_start
      /\ \A n \in Node : /\ row_start[n] \in Nat /\ row_start[n + 1] \in Nat
                         /\ row_start[n] <= row_start[n + 1]
      /\ \A k \in FileEdges :
           /\ k \in Int
           /\ Source(file, k) \in Node /\ Dest(file, k) \in Node /\ Wt(file, k) \in Int
           /\ \A n \in Node : row_start[n] < k /\ k <= row_start[n + 1] <=> n = Source(file, k)
  <2>1. \A k \in FileEdges : k \in Int
    BY DEF FileEdges
  <2>. QED
    BY <1>0, <1>1, <2>1, GraphFacts DEF graphVars
<1>4. /\ node_wt \in [Node -> Weight] /\ program = "queue"
      /\ \A n \in Node : node_wt[n] <= InitDist(n) /\ Dist(n) <= node_wt[n]
  BY <1>0, <1>1 DEF TableOK
<1>5. /\ RingOK(sq)
      /\ \A n \in Queued(sq) : n \in Node /\ node_wt[n] # INF
      /\ \A k \in FileEdges :
           \/ node_wt[Source(file, k)] = INF
           \/ node_wt[Dest(file, k)] <= node_wt[Source(file, k)] + Wt(file, k)
           \/ Source(file, k) \in Queued(sq)
           \/ Source(file, k) = node /\ edge < k
  BY <1>0, <1>1 DEF QueueOK
<1>6. /\ node \in Node /\ node_wt[node] # INF
      /\ edge \in row_start[node] .. row_start[node + 1] /\ edge \in Int
  <2>1. /\ node \in Node /\ node_wt[node] # INF
        /\ edge \in row_start[node] .. row_start[node + 1]
    BY <1>0, <1>1 DEF ScanOK
  <2>. QED
    BY <1>3, <2>1
<1>7. \A n \in Node : node_wt[n] \in Int /\ node_wt[n] <= INF
  BY <1>4 DEF Weight
<1>8. INF \in Int /\ \A n \in Node : InitDist(n) \in Int
  BY INFAssumption DEF InitDist
<1>9. Before' /\ RoundOK' /\ OutputOK'
  BY <1>1 DEF Before, RoundOK, OutputOK
<1>. DEFINE new == edge + 1
<1>10. edge < row_start[node + 1] =>
         /\ new \in FileEdges /\ edge_dst[edge] \in Node
         /\ Source(file, new) = node /\ Dest(file, new) = edge_dst[edge]
         /\ Wt(file, new) = edge_wt[edge]
         /\ new \in row_start[node] .. row_start[node + 1]
  BY <1>0, <1>1, <1>3, <1>6, EdgeFacts
<1>11. \A k \in FileEdges : edge < k => k = new \/ new < k
  BY <1>3, <1>6
<1>. HIDE DEF new
<1>12. CASE /\ edge < row_start[node + 1] /\ ~Improves
            /\ edge' = edge + 1 /\ UNCHANGED <<pc, node_wt, sq>>
  <2>1. node_wt[Dest(file, new)] <= node_wt[node] + Wt(file, new)
    BY <1>0, <1>1, <1>10, <1>12, EdgeFacts
  <2>2. ScanOK'
    <3>1. edge' \in row_start[node] .. row_start[node + 1]
      BY <1>10, <1>12 DEF new
    <3>. QED
      BY <1>1, <1>2, <1>3, <1>6, <1>12, <3>1 DEF ScanOK
  <2>3. ASSUME NEW k \in FileEdges
        PROVE  \/ node_wt[Source(file, k)] = INF
               \/ node_wt[Dest(file, k)] <= node_wt[Source(file, k)] + Wt(file, k)
               \/ Source(file, k) \in Queued(sq)
               \/ Source(file, k) = node /\ new < k
    BY <1>5, <1>10, <1>11, <1>12, <2>1
  <2>4. edge' = new
    BY <1>12 DEF new
  <2>5. QueueOK'
    BY <1>1, <1>2, <1>5, <1>12, <2>3, <2>4 DEF QueueOK
  <2>6. TableOK'
    BY <1>1, <1>2, <1>4, <1>12 DEF TableOK
  <2>. QED
    BY <1>2, <1>9, <2>2, <2>5, <2>6 DEF IInv, SerialInv
<1>13. CASE /\ edge < row_start[node + 1] /\ Improves /\ node_wt' = Lowered
            /\ IF IsFull(sq) THEN pc' = "exitFull" /\ UNCHANGED <<edge, sq>>
               ELSE sq' = Pushed(sq, edge_dst[edge]) /\ edge' = edge + 1 /\ UNCHANGED pc
  <2>. DEFINE to == edge_dst[edge]
  <2>1. /\ node_wt' \in [Node -> Weight]
        /\ \A n \in Node : /\ node_wt'[n] <= node_wt[n] /\ Dist(n) <= node_wt'[n]
                           /\ n # to => node_wt'[n] = node_wt[n]
        /\ node_wt'[to] = node_wt[node] + edge_wt[edge]
        /\ node_wt'[to] # INF
    BY <1>0, <1>1, <1>13, EdgeFacts
  <2>2. to \in Node /\ Dest(file, new) = to
    BY <1>10, <1>13
  <2>. HIDE DEF to
  <2>3. \A n \in Node : node_wt'[n] \in Int
    BY <2>1 DEF Weight
  <2>4. TableOK'
    <3>1. \A n \in Node : node_wt'[n] <= InitDist(n)
      BY <1>4, <1>7, <1>8, <2>1, <2>3
    <3>. QED
      BY <1>1, <1>2, <1>4, <1>13, <2>1, <3>1 DEF TableOK
  <2>5. CASE IsFull(sq)
    <3>1. ScanOK' /\ QueueOK'
      BY <1>13, <2>5 DEF ScanOK, QueueOK
    <3>. QED
      BY <1>2, <1>9, <2>4, <3>1 DEF IInv, SerialInv
  <2>6. CASE ~IsFull(sq)
    <3>1. sq' = Pushed(sq, to) /\ edge' = new /\ pc' = "relax"
      BY <1>1, <1>13, <2>6 DEF to, new
    <3>2. to \in Nat
      BY <2>2 DEF Node
    <3>3. RingOK(sq') /\ Queued(sq') = Queued(sq) \cup {to}
      BY <1>5, <2>6, <3>1, <3>2, PushedIs
    <3>4. \A n \in Node : node_wt[n] # INF => node_wt'[n] # INF
      BY <1>7, <1>8, <2>1, <2>3
    <3>5. ScanOK'
      <4>1. node_wt'[node] # INF /\ edge' \in row_start[node] .. row_start[node + 1]
        BY <1>6, <1>10, <1>13, <3>1, <3>4
      <4>. QED
        BY <1>1, <1>2, <1>3, <1>6, <4>1 DEF ScanOK
    <3>6. \A n \in Queued(sq') : n \in Node /\ node_wt'[n] # INF
      BY <1>5, <2>1, <2>2, <3>3, <3>4
    <3>7. ASSUME NEW k \in FileEdges
          PROVE  \/ node_wt'[Source(file, k)] = INF
                 \/ node_wt'[Dest(file, k)] <= node_wt'[Source(file, k)] + Wt(file, k)
                 \/ Source(file, k) \in Queued(sq')
                 \/ Source(file, k) = node /\ new < k
      <4>1. Source(file, k) \in Node /\ Dest(file, k) \in Node /\ Wt(file, k) \in Int
        BY <1>3
      <4>2. CASE Source(file, k) = to
        BY <3>3, <4>2
      <4>3. CASE Source(file, k) # to
        <5>1. node_wt'[Source(file, k)] = node_wt[Source(file, k)]
          BY <2>1, <4>1, <4>3
        <5>2. ASSUME node_wt[Dest(file, k)] <= node_wt[Source(file, k)] + Wt(file, k)
              PROVE  node_wt'[Dest(file, k)] <= node_wt'[Source(file, k)] + Wt(file, k)
          <6>1. /\ node_wt'[Dest(file, k)] \in Int /\ node_wt[Dest(file, k)] \in Int
                /\ node_wt[Source(file, k)] \in Int
                /\ node_wt'[Dest(file, k)] <= node_wt[Dest(file, k)]
            BY <1>7, <2>1, <2>3, <4>1
          <6>. QED
            BY ONLY <4>1, <5>1, <5>2, <6>1
        <5>3. ASSUME k = new
              PROVE  node_wt'[Dest(file, k)] <= node_wt'[Source(file, k)] + Wt(file, k)
          <6>1. Source(file, k) = node /\ Wt(file, k) = edge_wt[edge] /\ Dest(file, k) = to
            BY <1>10, <1>13, <2>2, <5>3
          <6>2. node_wt'[Dest(file, k)] = node_wt'[Source(file, k)] + Wt(file, k)
            BY <2>1, <5>1, <6>1
          <6>3. node_wt'[Dest(file, k)] \in Int
            BY <2>3, <4>1
          <6>. QED
            BY <6>2, <6>3
        <5>. QED
          BY <1>5, <1>11, <3>3, <5>1, <5>2, <5>3
      <4>. QED
        BY <4>2, <4>3
    <3>8. QueueOK'
      BY <1>1, <1>2, <3>1, <3>3, <3>6, <3>7 DEF QueueOK
    <3>. QED
      BY <1>2, <1>9, <2>4, <3>5, <3>8 DEF IInv, SerialInv
  <2>. QED
    BY <2>5, <2>6
<1>14. CASE edge >= row_start[node + 1] /\ pc' = "pop" /\ UNCHANGED <<node_wt, edge, sq>>
  <2>1. ASSUME NEW k \in FileEdges
        PROVE  ~(Source(file, k) = node /\ edge < k)
    <3>1. Source(file, k) = node => k <= row_start[node + 1]
      BY <1>3, <1>6
    <3>2. row_start[node + 1] \in Int /\ k \in Int /\ row_start[node + 1] <= edge
      BY <1>3, <1>6, <1>14
    <3>. QED
      BY <1>6, <3>1, <3>2
  <2>2. QueueOK'
    BY <1>1, <1>2, <1>5, <1>14, <2>1 DEF QueueOK
  <2>3. TableOK' /\ ScanOK'
    BY <1>1, <1>2, <1>4, <1>14 DEF TableOK, ScanOK
  <2>. QED
    BY <1>2, <1>9, <2>2, <2>3 DEF IInv, SerialInv
<1>. QED
  BY <1>12, <1>13, <1>14 DEF RelaxAndPush

\* Both: the lines that are written are those of the table.
LEMMA WriteStep ==
  ASSUME IInv, WriteOutput
  PROVE  IInv'
<1>0. FileInv /\ TableOK /\ OutputOK
  BY DEF IInv, SerialInv
<1>1. /\ pc = "write" /\ Ready /\ pc \in SSSPLabel
      /\ pc' \in {"exit write", "done"} /\ pc' \in SSSPLabel
      /\ UNCHANGED <<file, graphVars, program, node_wt>>
  BY DEF WriteOutput, Ready, SSSPLabel, serialVars
<1>2. /\ FileInv' /\ Node' = Node /\ num_nodes' = num_nodes
      /\ \A n : Dist(n)' = Dist(n)
  BY <1>0, <1>1, GraphKept DEF graphVars
<1>3. TableOK'
  BY <1>0, <1>1, <1>2 DEF TableOK
<1>4. OutputOK'
  <2>1. OutputLines' = OutputLines
    BY <1>1, <1>2 DEF OutputLines
  <2>4. out' = SubSeq(OutputLines, 1, Len(out')) /\ (lost' = 0 => out' = OutputLines)
    <3>. DEFINE S == { OutputLines[k] : k \in 1 .. num_nodes }
    <3>1. num_nodes \in Nat
      BY <1>0, <1>1, GraphFacts
    <3>2. OutputLines \in [1 .. num_nodes -> S]
      BY DEF OutputLines
    <3>. HIDE DEF S
    <3>3. OutputLines \in Seq(S)
      BY <3>1, <3>2, SeqDef
    <3>4. Written(OutputLines)
      BY DEF WriteOutput, OutputLines
    <3>. QED
      BY <3>3, <3>4, WrittenIs
  <2>2. \A n \in Node : node_wt[n] = Dist(n)
    BY <1>0, <1>1 DEF OutputOK
  <2>. QED
    BY <1>1, <1>2, <2>1, <2>2, <2>4 DEF OutputOK
<1>5. Before' /\ ScanOK' /\ RoundOK' /\ QueueOK'
  BY <1>1 DEF Before, ScanOK, RoundOK, QueueOK
<1>. QED
  BY <1>2, <1>3, <1>4, <1>5 DEF IInv, SerialInv

\* Away from sssp only the rounds and the queue have a value that matters.
LEMMA NotYet ==
  ASSUME pc \notin SSSPLabel, Before
  PROVE  SerialInv
BY DEF SSSPLabel, SerialInv, TableOK, ScanOK, RoundOK, QueueOK, OutputOK

\* load_file and save_file leave the variables of sssp alone.
LEMMA FileSteps ==
  ASSUME IInv, LoadStep \/ SaveStep, UNCHANGED serialVars
  PROVE  IInv'
<1>1. FileInv'
  BY FileInvStep DEF IInv
<1>2. pc \notin SSSPLabel /\ pc' \notin SSSPLabel
  <2>1. CASE LoadStep
    BY <2>1 DEF LoadStep, LoadNothing, LoadHeader, LoadOddHeader, LoadReject, LoadEdge, LoadTail,
                LoadTailOutside, SSSPLabel
  <2>2. CASE SaveStep
    BY <2>2 DEF SaveStep, CallSave, SaveHeader, SaveEdge, SaveRow, SSSPLabel
  <2>. QED
    BY <2>1, <2>2
<1>3. Before'
  BY <1>2 DEF IInv, SerialInv, Before, serialVars
<1>4. SerialInv'
  BY <1>2, <1>3 DEF SSSPLabel, SerialInv, TableOK, ScanOK, RoundOK, QueueOK, OutputOK
<1>. QED
  BY <1>1, <1>4 DEF IInv

LEMMA SerialInit == Init => IInv \/ OddInv
<1>. SUFFICES ASSUME Init
              PROVE  IInv \/ OddInv
  OBVIOUS
<1>1. FileInv \/ OddInv
  BY FileInvInit DEF Init
<1>2. pc \notin SSSPLabel /\ Before
  BY DEF Init, LoadInit, SSSPLabel, Before
<1>. QED
  BY <1>1, <1>2, NotYet DEF IInv

LEMMA SerialStutter ==
  ASSUME IInv, UNCHANGED vars
  PROVE  IInv'
<1>1. FileInv'
  BY FileInvStep DEF IInv, vars
<1>2. /\ Node' = Node /\ FileEdges' = FileEdges /\ \A n : Dist(n)' = Dist(n)
      /\ \A k : Passed(k)' <=> Passed(k)
  BY DEF vars, fileVars, graphVars, serialVars, Node, FileEdges, Dist, TrueDist, Passed
<1>3. UNCHANGED <<file, pc, num_nodes, row_start, out, lost, program, node_wt, node, edge, changed, rounds, sq>>
  BY DEF vars, fileVars, graphVars, serialVars
<1>4. Before' /\ TableOK' /\ ScanOK'
  BY <1>2, <1>3 DEF IInv, SerialInv, Before, TableOK, ScanOK
<1>5. RoundOK'
  BY <1>2, <1>3 DEF IInv, SerialInv, RoundOK
<1>6. QueueOK' /\ OutputOK'
  BY <1>2, <1>3 DEF IInv, SerialInv, QueueOK, OutputOK, OutputLines
<1>. QED
  BY <1>1, <1>4, <1>5, <1>6 DEF IInv, SerialInv

\* The arrays are there.
LEMMA NotMissing ==
  ASSUME FileInv
  PROVE  ~UseMissingArrays
<1>1. pc = "loaded" => num_edges \in Nat
  BY FileTypes DEF FileInv, FileOK, Loaded, Shape
<1>. QED
  BY <1>1 DEF UseMissingArrays, MissingArrays

\* One step for each action of the two programs.
LEMMA SerialStep == IInv /\ [Next]_vars => IInv'
<1>. SUFFICES ASSUME IInv, [Next]_vars
              PROVE  IInv'
  OBVIOUS
<1>1. CASE LoadStep /\ UNCHANGED <<program, serialVars>>
  BY <1>1, FileSteps
<1>2. CASE SaveStep /\ program = "copy" /\ ~MissingArrays /\ UNCHANGED <<program, serialVars>>
  BY <1>2, FileSteps
<1>11. CASE UseMissingArrays
  BY <1>11, NotMissing DEF IInv
<1>3. CASE SSSPInit
  BY <1>3, SSSPInitStep
<1>4. CASE Round
  BY <1>4, RoundStep
<1>5. CASE VisitNode
  BY <1>5, VisitStep
<1>6. CASE RelaxEdge
  BY <1>6, RelaxEdgeStep
<1>7. CASE Pop
  BY <1>7, PopStep
<1>8. CASE RelaxAndPush
  BY <1>8, RelaxAndPushStep
<1>9. CASE WriteOutput
  BY <1>9, WriteStep
<1>10. CASE UNCHANGED vars
  BY <1>10, SerialStutter
<1>. QED
  BY <1>1, <1>2, <1>3, <1>4, <1>5, <1>6, <1>7, <1>8, <1>9, <1>10, <1>11
  DEF Next, MainStep, Terminating

\* What is said about the files does not depend on the rest: no other step
\* changes the graph.
LEMMA FileKept == FileInv /\ [Next]_vars => FileInv'
<1>. SUFFICES ASSUME FileInv, [Next]_vars
              PROVE  FileInv'
  OBVIOUS
<1>1. CASE LoadStep \/ SaveStep \/ UNCHANGED vars
  BY <1>1, FileInvStep DEF vars
<1>2. CASE SSSPInit \/ Round \/ VisitNode \/ RelaxEdge \/ Pop \/ RelaxAndPush \/ WriteOutput
  <2>1. Ready /\ UNCHANGED <<file, graphVars>> /\ pc' \in SSSPLabel
    <3>. USE DEF Ready, SSSPLabel, Graph
    <3>1. CASE SSSPInit
      BY <3>1 DEF SSSPInit
    <3>2. CASE Round \/ VisitNode
      BY <3>2 DEF Round, VisitNode
    <3>3. CASE RelaxEdge \/ Pop
      BY <3>3 DEF RelaxEdge, Pop
    <3>4. CASE RelaxAndPush \/ WriteOutput
      BY <3>4 DEF RelaxAndPush, WriteOutput
    <3>. QED
      BY <1>2, <3>1, <3>2, <3>3, <3>4
  <2>. QED
    BY <2>1, GraphKept
<1>. QED
  BY <1>1, <1>2, NotMissing DEF Next, MainStep, Terminating

-----------------------------------------------------------------------------
\* The loop invariants of load_file and save_file (simplegraph.h:40, 106) hold
\* for every file with two numbers that are not below 0 in its header, and of
\* any other header no edge is read; what the weights are does not matter.
THEOREM FileInvariant == Spec => [](FileInv \/ OddInv)
<1>1. Init => FileInv \/ OddInv
  BY FileInvInit DEF Init
<1>2. (FileInv \/ OddInv) /\ [Next]_vars => (FileInv \/ OddInv)'
  BY FileKept, OddStep
<1>. QED
  BY <1>1, <1>2, PTL DEF Spec

\* For every file with such a header, the invariants of the loops of load_file
\* and save_file (simplegraph.h:40, 106), of the rounds of a2
\* (sssp_serial.cpp:17, 86) and of the queue of a4 (sssp_serial.cpp:22) hold.
THEOREM SerialInvariant == Spec => [](IInv \/ OddInv)
<1>1. (IInv \/ OddInv) /\ [Next]_vars => (IInv \/ OddInv)'
  BY SerialStep, OddStep
<1>. QED
  BY <1>1, SerialInit, PTL DEF Spec

\* load_file takes exactly the files whose sources ascend and that have all
\* their edges, and then the arrays are the graph of the file, whatever rows
\* are empty (simplegraph.h:40-65); but it also takes a file whose header it
\* could not read (simplegraph.h:25), if what the memory held for num_edges is
\* not above 0, whatever that memory held.
THEOREM LoadCorrect == Spec => []LoadedOrRejected
<1>1. FileInv => LoadedOrRejected
  <2> SUFFICES ASSUME FileInv
               PROVE  LoadedOrRejected
    OBVIOUS
  <2>1. Loaded => Readable /\ GraphOfFile
    BY FileTypes, LoadedIsGraph DEF FileInv
  <2> QED BY <2>1 DEF FileInv, LoadedOrRejected, Loading
<1>2. OddInv => LoadedOrRejected
  BY DEF OddInv, OddHeader, LoadedOrRejected, Loading, Readable
<1> QED BY <1>1, <1>2, FileInvariant, PTL

\* save_file writes the lines of the file that load_file has read, for every
\* file (simplegraph.h:91-118): all of them, or those before the ones that
\* fclose could not write.
THEOREM SaveCorrect == Spec => []RoundTrip
<1>1. FileInv => RoundTrip
  <2> SUFFICES ASSUME FileInv, pc = "saved"
               PROVE  RoundTrip
    BY DEF RoundTrip
  <2>0. PICK lines \in Seq(Output) : LinesIn(lines) /\ out = SubSeq(lines, 1, Len(out))
                                      /\ (lost = 0 => out = lines)
    BY DEF FileInv, Saved
  <2>1. /\ file.count \in Nat /\ e = file.count /\ num_nodes = file.nodes
        /\ num_edges = file.count /\ LinesIn(lines)
    BY <2>0, FileTypes DEF FileInv, FileOK, Saved, Loaded, Shape
  <2> DEFINE head == << <<file.nodes, file.count>> >>
             tail == [k \in 1 .. file.count |->
                        <<file.edges[k].src, file.edges[k].dst, file.edges[k].wt>>]
  <2>2. Len(lines) = file.count + 1 /\ lines[1] = <<file.nodes, file.count>>
    BY <2>1 DEF LinesIn
  <2>3. \A k \in 1 .. file.count : lines[k + 1] = tail[k]
    BY <2>1 DEF LinesIn
  <2>4. tail \in Seq(Output)
    <3>1. \A k \in 1 .. file.count : lines[k + 1] \in Output
      BY <2>1, <2>2
    <3>2. \A k \in 1 .. file.count : tail[k] \in Output
      BY <2>3, <3>1
    <3>3. tail \in [1 .. file.count -> Output]
      BY <3>2
    <3> HIDE DEF tail
    <3> QED BY <2>1, <3>3, SeqDef
  <2>5. Len(tail) = file.count
    BY <2>1
  <2>6. head \in Seq(Output) /\ Len(head) = 1 /\ head[1] = <<file.nodes, file.count>>
    <3>1. file.nodes \in Nat
      BY FileTypes DEF FileInv, FileOK
    <3>2. <<file.nodes, file.count>> \in Output
      BY <2>1, <3>1 DEF Output
    <3> HIDE DEF Output
    <3> QED BY <3>2
  <2>7. /\ head \o tail \in Seq(Output)
        /\ Len(head \o tail) = 1 + file.count
        /\ \A k \in 1 .. 1 + file.count :
             (head \o tail)[k] = IF k <= 1 THEN head[k] ELSE tail[k - 1]
    BY <2>1, <2>4, <2>5, <2>6, ConcatProperties
  <2>8. ASSUME NEW k \in 1 .. file.count + 1
        PROVE  (head \o tail)[k] = lines[k]
    <3>1. CASE k = 1
      BY <2>1, <2>2, <2>6, <2>7, <3>1
    <3>2. CASE k # 1
      <4>1. k - 1 \in 1 .. file.count /\ (k - 1) + 1 = k /\ k \in 1 .. 1 + file.count /\ ~(k <= 1)
        BY <2>1, <3>2
      <4>2. (head \o tail)[k] = tail[k - 1]
        BY <2>7, <4>1
      <4>3. lines[(k - 1) + 1] = tail[k - 1]
        BY <2>3, <4>1
      <4> QED BY <4>1, <4>2, <4>3
    <3> QED BY <3>1, <3>2
  <2>9. head \o tail = lines
    <3> HIDE DEF head, tail
    <3>1. Len(head \o tail) = Len(lines)
      BY <2>1, <2>2, <2>7
    <3>2. 1 .. Len(head \o tail) = 1 .. file.count + 1
      BY <2>1, <2>7
    <3>3. \A k \in 1 .. Len(head \o tail) : (head \o tail)[k] = lines[k]
      BY <2>8, <3>2
    <3> QED BY <2>1, <2>7, <3>1, <3>3, SeqEqual
  <2> QED BY <2>0, <2>9 DEF RoundTrip
<1>2. OddInv => RoundTrip
  BY DEF OddInv, RoundTrip
<1> QED BY <1>1, <1>2, FileInvariant, PTL

\* a4: an edge that can lower a distance is one of a node that is queued, or
\* of the node that is looked at and not passed yet, for every file
\* (a4/sssp_serial.cpp:22-38).
THEOREM WorkCorrect == Spec => []WorkQueued
<1>1. IInv => WorkQueued
  <2>. SUFFICES ASSUME IInv, pc \in {"pop", "relax", "write"}, program = "queue",
                       NEW k \in 0 .. num_edges - 1
                PROVE  LET n == file.edges[k + 1].src
                       IN  \/ node_wt[n] = INF \/ node_wt[edge_dst[k]] <= node_wt[n] + edge_wt[k]
                           \/ pc # "write" /\ n \in Queued(sq)
                           \/ pc = "relax" /\ n = node /\ edge <= k
    BY DEF WorkQueued
  <2>1. FileInv /\ TableOK /\ ScanOK /\ QueueOK /\ OutputOK /\ Ready
    BY DEF IInv, SerialInv, Ready
  <2>2. num_edges = file.count /\ num_edges \in Nat
    BY <2>1, GraphFacts
  <2>3. k + 1 \in FileEdges /\ (k + 1) - 1 = k
    BY <2>2 DEF FileEdges
  <2>. DEFINE n == Source(file, k + 1)
  <2>4. /\ n \in Node /\ Dest(file, k + 1) \in Node
        /\ edge_dst[k] = Dest(file, k + 1) /\ edge_wt[k] = Wt(file, k + 1)
        /\ \A r \in Node : row_start[r] \in Nat /\ row_start[r + 1] \in Nat
    <3>1. edge_dst[(k + 1) - 1] = Dest(file, k + 1) /\ edge_wt[(k + 1) - 1] = Wt(file, k + 1)
      BY <2>1, <2>3, GraphFacts
    <3>. QED
      BY <2>1, <2>3, <3>1, GraphFacts
  <2>5. CASE pc = "write"
    <3>1. \A r \in Node : node_wt[r] = Dist(r)
      BY <2>1, <2>5 DEF OutputOK
    <3>2. Dist(n) # INF => Dist(Dest(file, k + 1)) <= Dist(n) + Wt(file, k + 1)
      BY <2>1, <2>3, <2>4, DistFacts
    <3>. QED
      BY <2>4, <3>1, <3>2 DEF Source
  <2>6. CASE pc # "write"
    <3>1. \/ node_wt[n] = INF
          \/ node_wt[edge_dst[k]] <= node_wt[n] + edge_wt[k]
          \/ n \in Queued(sq)
          \/ pc = "relax" /\ n = node /\ edge < k + 1
      BY <2>1, <2>3, <2>4, <2>6 DEF QueueOK
    <3>2. pc = "relax" => edge \in Int
      BY <2>1, <2>4 DEF ScanOK
    <3>3. pc = "relax" /\ edge < k + 1 => edge <= k
      BY <3>2
    <3>. QED
      BY <2>6, <3>1, <3>3 DEF Source
  <2>. QED
    BY <2>5, <2>6
<1>2. OddInv => WorkQueued
  BY DEF OddInv, WorkQueued
<1>. QED
  BY <1>1, <1>2, SerialInvariant, PTL

\* From the file to the output: both programs write, for every file they take,
\* the distances that the table of Bellman and Ford gives for its edges, but
\* for the last lines if the end of the process could not write them
\* (a2/sssp_serial.cpp:85-97, a4/sssp_serial.cpp:90-99).
THEOREM OutputCorrect == Spec => []FinalOutput
<1>1. IInv => FinalOutput
  <2>. SUFFICES ASSUME IInv, pc = "done"
                PROVE  LET lines == [k \in 1 .. file.nodes |-> OutputLine(k - 1, TrueDist[k - 1])]
                       IN  /\ out = SubSeq(lines, 1, Len(out))
                           /\ lost = 0 => out = lines
    BY DEF FinalOutput
  <2>1. FileInv /\ OutputOK /\ Ready
    BY DEF IInv, SerialInv, Ready
  <2>2. num_nodes = file.nodes /\ num_nodes \in Nat
    BY <2>1, GraphFacts
  <2>3. \A k \in 1 .. num_nodes : k - 1 \in Node
    BY <2>2 DEF Node
  <2>4. \A k \in 1 .. num_nodes : node_wt[k - 1] = TrueDist[k - 1]
    BY <2>1, <2>3 DEF OutputOK, Dist
  <2>5. out = SubSeq(OutputLines, 1, Len(out)) /\ (lost = 0 => out = OutputLines)
    BY <2>1 DEF OutputOK
  <2>6. OutputLines = [k \in 1 .. file.nodes |-> OutputLine(k - 1, TrueDist[k - 1])]
    BY <2>2, <2>4 DEF OutputLines
  <2>. QED
    BY <2>5, <2>6
<1>2. OddInv => FinalOutput
  BY DEF OddInv, FinalOutput
<1>. QED
  BY <1>1, <1>2, SerialInvariant, PTL
=============================================================================
