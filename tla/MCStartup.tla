----------------------------- MODULE MCStartup -----------------------------
(***************************************************************************)
(* Command lines for TLC: each option, alone and several in a word, those  *)
(* that swallow another, with the argument in the word or behind it or     *)
(* missing, unknown and long ones, "-" and "--", and words that are none.  *)
(***************************************************************************)
EXTENDS Startup

m    == << "-", "m" >>
r    == << "-", "r" >>
w    == << "-", "w" >>
t    == << "-", "t" >>
dash == << "-" >>
udp  == << "u", "d", "p" >>
sctp == << "s", "c", "t", "p" >>

Lines ==
  [DDS_Server |->
     {<< >>, << m >>, << w, m >>, << m, w >>, << t, udp >>, << t, w, m >>,
      << << "-", "p" >>, t, sctp >>, << << "-", "p" >>, t, udp >>,
      << r, << "w" >>, << "-", "x" >> >>,
      << << "-", "m", "r" >> >>, << << "-", "t" >> \o udp, m >>, << << "-", "w", "m" >>, r >>,
      << << "-", "r", "w" >>, m >>, << << "-", "m", "x" >> >>, << << "-", "-", "m" >> >>,
      << r, Marker, m >>, << t, Marker, m >>, << dash, << >>, m >>},
   DDS_Client |-> {<< >>, << t, udp >>}]
=============================================================================
