---------------------------- MODULE MCSubmitPage ----------------------------
(* SubmitPage with a minimum of 2 seconds and a maximum of 4, for TLC. *)
EXTENDS SubmitPage

CONSTANT video

MCDurations == {Blank, Whole(3), Whole(5), Mixed(3)}

At(n, suffix) == [n |-> n, suffix |-> suffix]

StartTexts ==
  {<< >>, <<At(7, "end")>>, <<At(1, "colon"), At(2, "colon"), At(3, "end")>>,
   <<At(1, "h"), At(2, "m")>>, <<At(1, "colon"), At(-1, "end")>>,
   <<At(1, "colon"), At(0, "colon"), At(0, "colon"), At(1, "end")>>}

To(site, path, v, t, start, fragment) ==
  [site |-> site, path |-> path, v |-> v,
   t |-> t, start |-> start, fragment |-> fragment]

Hms == <<At(1, "h"), At(2, "m"), At(3, "s")>>

VideoLinks ==
  {To("bare", <<video>>, NoVideo, << >>, << >>, << >>),
   To("youtu.be", <<video>>, NoVideo, <<At(90, "s")>>, << >>, << >>),
   To("youtu.be", <<video, "x">>, NoVideo, << >>, << >>, << >>),
   To("youtube.com", <<"watch">>, video, Hms, << >>, <<At(5, "end")>>),
   To("youtube.com", <<"shorts", video>>, NoVideo, << >>, <<At(2, "colon"), At(5, "end")>>, << >>),
   To("youtube.com", <<"embed", video>>, NoVideo, << >>, << >>, <<At(2, "m"), At(5, "end")>>),
   To("youtu.be", <<video>>, NoVideo, <<At(0, "m"), At(30, "s")>>, << >>, << >>),
   To("youtube.com", <<"user", video>>, NoVideo, << >>, << >>, << >>),
   To("other", <<video>>, NoVideo, Hms, << >>, << >>),
   To("youtube.com", <<"watch">>, video, <<At(-1, "s")>>, Hms, << >>)}
\* Every link with an empty start field, and every start field with one link.
MCAddresses ==
  {[link |-> l, field |-> << >>] : l \in VideoLinks}
    \cup {[link |-> To("bare", <<video>>, NoVideo, << >>, << >>, << >>),
           field |-> f] : f \in StartTexts}
=============================================================================
